---- MODULE Spec2Model ----
(***************************************************************************)
(* Floor monitoring: the absence-alert scheduler (app/alert_manager.py)    *)
(* and the centroid tracker (app/tracking_system.py).                      *)
(*                                                                         *)
(* Time is counted in minutes.  A Python dict is a sequence of [k, v]      *)
(* entries in insertion order.  An Alert object is a slot of the heap      *)
(* `alerts`; a slot is free again once nothing refers to the object.       *)
(***************************************************************************)
EXTENDS Integers, Sequences, FiniteSets, TLC

VARIABLES
    now,               \* datetime.now(), in minutes
    timeout_minutes,   \* AlertManager.timeout_minutes
    alerts,            \* heap of Alert objects: slot -> Alert or NoAlert
    pending_alerts,    \* AlertManager.pending_alerts: dict tracking_id -> Alert (slot)
    alert_callbacks,   \* AlertManager.alert_callbacks: list of callables
    lock,              \* AlertManager.lock: "free" or the thread holding it
    ev,                \* per evaluator thread: position and locals of _check_alerts
    absence_alerts,    \* rows of the absence_alerts table (Database.create_alert)
    create_alert_calls,\* history: number of create_alert calls per tracking_id
    cb_calls,          \* history: per tracking_id, the callbacks invoked, in order
    last_op,           \* history: the scheduler API call made by the last step, if any
    objects,           \* CentroidTracker.objects: dict tracking_id -> TrackedPerson
    next_object_id,    \* CentroidTracker.next_object_id
    empty_run,         \* history: per camera, consecutive empty updates so far
    trackers,          \* TrackingManager.trackers: dict camera_id -> CentroidTracker
    face_recognition,  \* TrackingManager.face_recognition: an engine is given, or None
    just_left,         \* history: per camera, the ids that departed in its last update
    frame_queue,       \* CameraStream.frame_queue: the frames buffered, oldest first
    last_frame,        \* CameraStream.last_frame: a frame, or 0 for None
    frame_count,       \* CameraStream.frame_count
    captured,          \* history: the number of frames capture.read() has returned
    acq,               \* the acquisition thread: position and locals of _update
    rd,                \* per consumer: position in read() and what it returned last
    stopped,           \* CameraStream.stopped
    capture,           \* CameraStream.capture: "open" or "released"
    info_active,       \* CameraStream.camera_info.is_active
    stopper,           \* the thread in CameraStream.stop(): position and history
    processing_active, \* main.processing_active
    pipeline,          \* per thread of process_cameras ever created: its position
    running,           \* AlertManager.running
    monitor,           \* per thread of _monitor_loop ever created: its position
    req,               \* per request thread: position in start_system or stop_system
    presence_logs      \* rows of the presence_logs table (Database.log_entry, log_exit)

alertVars == <<timeout_minutes, alerts, pending_alerts, alert_callbacks, lock, ev,
               absence_alerts, create_alert_calls, cb_calls, last_op>>
trackVars == <<objects, next_object_id, empty_run>>
mgrVars == <<trackers, face_recognition, just_left>>
stopVars == <<stopped, capture, info_active, stopper>>
camVars == <<frame_queue, last_frame, frame_count, captured, acq, rd, stopVars>>
sysVars == <<processing_active, pipeline, running, monitor, req, presence_logs>>
vars == <<now, alertVars, trackVars, mgrVars, camVars, sysVars>>

----------------------------------------------------------------------------
(* Bounds of the model *)

MaxCallbacks == 2      \* callbacks ever registered
MaxLastSeen == 0       \* latest last_seen of a person handed to the scheduler
MaxDetections == 2     \* detections in one frame
max_disappeared == 2   \* CentroidTracker.max_disappeared (30 in config.py, 5 in the tests)
buffer_size == 2       \* CameraStream.buffer_size (5 by default)
MaxFrames == 4         \* frames the capture delivers

(* Program constants *)

ABSENCE_TIMEOUT_MINUTES == 20
TRACKING_MAX_DISTANCE == 50
FRAME_SKIP == 2

\* the tracking ids handed to the scheduler
TrackingIds == {1, 2}
\* the tracking ids a tracker gets to issue
ObjectIds == {1, 2}
Evaluators == {"ev1", "ev2"}
CallbackKinds == {"ok", "raises"}
\* constructor argument timeout_minutes; 0 stands for None (both are falsy)
TimeoutArgs == {0, 20}

Min(a, b) == IF a < b THEN a ELSE b

----------------------------------------------------------------------------
(* Python dict, insertion ordered *)

DictHas(d, key) == \E i \in 1 .. Len(d) : d[i].k = key

DictGet(d, key) == d[CHOOSE i \in 1 .. Len(d) : d[i].k = key].v

DictSet(d, key, val) ==
    IF DictHas(d, key)
    THEN [i \in 1 .. Len(d) |-> IF d[i].k = key THEN [k |-> key, v |-> val] ELSE d[i]]
    ELSE Append(d, [k |-> key, v |-> val])

DictDel(d, key) ==
    LET keep(e) == e.k # key
    IN  SelectSeq(d, keep)

DictKeys(d) == {d[i].k : i \in 1 .. Len(d)}

DictValues(d) == [i \in 1 .. Len(d) |-> d[i].v]

Range(f) == {f[x] : x \in DOMAIN f}

----------------------------------------------------------------------------
(* app/alert_manager.py *)

\* the persons the pipeline can hand over at time t: employee_id is None for
\* tracking_id 1 and "EMP001" for the others
EmployeeIdOf(tid) == IF tid = 1 THEN "None" ELSE "EMP001"

Persons(t) ==
    {[tracking_id |-> tid, employee_id |-> EmployeeIdOf(tid), last_seen |-> s] :
        tid \in TrackingIds, s \in 0 .. Min(t, MaxLastSeen)}

\* the heap: one slot per alert the dict can hold and per reference a thread can hold
Slots == 1 .. (Cardinality(TrackingIds) + Cardinality(Evaluators))

NoAlert == [tracking_id |-> 0]

\* the objects something refers to: the values of the dict and the alerts the
\* trigger loops still have to go through
Referenced(pending, evs) ==
    Range(DictValues(pending)) \cup
    UNION {{evs[e].alerts_to_trigger[n] :
               n \in {m \in 1 .. Len(evs[e].alerts_to_trigger) : m >= evs[e].j}} :
           e \in Evaluators}

\* reference counting: an object nothing refers to is gone
Collect(heap, pending, evs) ==
    [o \in Slots |-> IF o \in Referenced(pending, evs) THEN heap[o] ELSE NoAlert]

FreeSlot == CHOOSE o \in Slots : alerts[o] = NoAlert /\ \A p \in Slots : p < o => alerts[p] # NoAlert

\* Alert.__init__
NewAlert(tracking_id, employee_id, left_at, timeout) ==
    [tracking_id |-> tracking_id,
     employee_id |-> employee_id,
     left_at |-> left_at,
     timeout_minutes |-> timeout,
     alert_time |-> left_at + timeout,
     triggered |-> FALSE,
     acknowledged |-> FALSE]

\* Alert.should_trigger
should_trigger_late(alert, t) == ~alert.triggered /\ t > alert.alert_time

should_trigger_early(alert, t) == ~alert.triggered /\ t >= alert.alert_time - 1

should_trigger_again(alert, t) == t >= alert.alert_time

should_trigger(alert, t) == ~alert.triggered /\ t >= alert.alert_time

IdleEvaluator == [pc |-> "idle", alerts_to_trigger |-> <<>>, j |-> 0, c |-> 0]

\* AlertManager.__init__
InitAlertManager(arg) ==
    /\ timeout_minutes = (IF arg = 0 THEN ABSENCE_TIMEOUT_MINUTES ELSE arg)
    /\ alerts = [o \in Slots |-> NoAlert]
    /\ pending_alerts = <<>>
    /\ alert_callbacks = <<>>
    /\ lock = "free"
    /\ ev = [e \in Evaluators |-> IdleEvaluator]
    /\ absence_alerts = <<>>
    /\ create_alert_calls = [tid \in TrackingIds |-> 0]
    /\ cb_calls = [tid \in TrackingIds |-> <<>>]
    /\ last_op = <<"none">>

\* the clock: it moves to the next instant at which it is read
Tick(instants) ==
    /\ \E t \in instants : t > now
    /\ now' = CHOOSE t \in instants : t > now /\ \A u \in instants : u > now => t <= u
    /\ last_op' = <<"none">>

\* the instants at which the scheduler's clock is read: while persons are handed
\* over (up to MaxLastSeen) and around the fire times, from one minute before the
\* earliest to one minute after the latest; nothing changes in between
AlertInstants ==
    (0 .. MaxLastSeen) \cup
    (timeout_minutes - 1 .. MaxLastSeen + timeout_minutes + 1)

TickAlert ==
    /\ Tick(AlertInstants)
    /\ UNCHANGED <<timeout_minutes, alerts, pending_alerts, alert_callbacks, lock, ev,
                   absence_alerts, create_alert_calls, cb_calls, trackVars, mgrVars, camVars, sysVars>>

\* AlertManager.register_callback (takes no lock)
register_callback(kind) ==
    /\ Len(alert_callbacks) < MaxCallbacks
    /\ alert_callbacks' = Append(alert_callbacks, kind)
    /\ last_op' = <<"none">>
    /\ UNCHANGED <<now, timeout_minutes, alerts, pending_alerts, lock, ev,
                   absence_alerts, create_alert_calls, cb_calls, trackVars, mgrVars, camVars, sysVars>>

\* AlertManager.add_pending_alert: the whole body runs under the lock
add_pending_alert_overwrite(person) ==
    /\ lock = "free"
    /\ pending_alerts' = DictSet(pending_alerts, person.tracking_id, FreeSlot)
    /\ alerts' = Collect([alerts EXCEPT ![FreeSlot] =
                             NewAlert(person.tracking_id,
                                      IF person.employee_id = "None" THEN "Unknown"
                                      ELSE person.employee_id,
                                      person.last_seen, timeout_minutes)],
                         pending_alerts', ev)
    /\ last_op' = <<"add_pending_alert", person.tracking_id,
                    IF DictHas(pending_alerts, person.tracking_id)
                    THEN "exists" ELSE "created">>
    /\ UNCHANGED <<now, timeout_minutes, alert_callbacks, lock, ev, absence_alerts,
                   create_alert_calls, cb_calls, trackVars, mgrVars, camVars, sysVars>>

add_pending_alert(person) ==
    /\ lock = "free"
    /\ IF DictHas(pending_alerts, person.tracking_id)
       THEN /\ last_op' = <<"add_pending_alert", person.tracking_id, "exists">>
            /\ UNCHANGED <<alerts, pending_alerts>>
       ELSE /\ alerts' = [alerts EXCEPT ![FreeSlot] =
                             NewAlert(person.tracking_id,
                                      IF person.employee_id = "None" THEN "Unknown"
                                      ELSE person.employee_id,
                                      person.last_seen, timeout_minutes)]
            /\ pending_alerts' = DictSet(pending_alerts, person.tracking_id, FreeSlot)
            /\ last_op' = <<"add_pending_alert", person.tracking_id, "created">>
    /\ UNCHANGED <<now, timeout_minutes, alert_callbacks, lock, ev, absence_alerts,
                   create_alert_calls, cb_calls, trackVars, mgrVars, camVars, sysVars>>

\* AlertManager.cancel_alert: the whole body runs under the lock
cancel_alert_no_delete(tracking_id) ==
    /\ lock = "free"
    /\ last_op' = <<"cancel_alert", tracking_id,
                    IF ~DictHas(pending_alerts, tracking_id) THEN "absent"
                    ELSE IF alerts[DictGet(pending_alerts, tracking_id)].triggered
                         THEN "kept" ELSE "removed">>
    /\ UNCHANGED <<now, timeout_minutes, alerts, pending_alerts, alert_callbacks, lock,
                   ev, absence_alerts, create_alert_calls, cb_calls, trackVars, mgrVars, camVars, sysVars>>

cancel_alert(tracking_id) ==
    /\ lock = "free"
    /\ IF DictHas(pending_alerts, tracking_id)
       THEN IF ~alerts[DictGet(pending_alerts, tracking_id)].triggered
            THEN /\ pending_alerts' = DictDel(pending_alerts, tracking_id)
                 /\ alerts' = Collect(alerts, pending_alerts', ev)
                 /\ last_op' = <<"cancel_alert", tracking_id, "removed">>
            ELSE /\ last_op' = <<"cancel_alert", tracking_id, "kept">>
                 /\ UNCHANGED <<alerts, pending_alerts>>
       ELSE /\ last_op' = <<"cancel_alert", tracking_id, "absent">>
            /\ UNCHANGED <<alerts, pending_alerts>>
    /\ UNCHANGED <<now, timeout_minutes, alert_callbacks, lock, ev,
                   absence_alerts, create_alert_calls, cb_calls, trackVars, mgrVars, camVars, sysVars>>

\* AlertManager.acknowledge_alert: the whole body runs under the lock
acknowledge_alert_if_triggered(tracking_id) ==
    /\ lock = "free"
    /\ IF /\ DictHas(pending_alerts, tracking_id)
          /\ alerts[DictGet(pending_alerts, tracking_id)].triggered
       THEN /\ alerts' = [alerts EXCEPT
                   ![DictGet(pending_alerts, tracking_id)].acknowledged = TRUE]
            /\ last_op' = <<"acknowledge_alert", tracking_id, "set">>
       ELSE /\ last_op' = <<"acknowledge_alert", tracking_id,
                            IF DictHas(pending_alerts, tracking_id)
                            THEN "set" ELSE "absent">>
            /\ UNCHANGED alerts
    /\ UNCHANGED <<now, timeout_minutes, pending_alerts, alert_callbacks, lock, ev,
                   absence_alerts, create_alert_calls, cb_calls, trackVars, mgrVars, camVars, sysVars>>

acknowledge_alert_and_drop(tracking_id) ==
    /\ lock = "free"
    /\ pending_alerts' = DictDel(pending_alerts, tracking_id)
    /\ alerts' = Collect(alerts, pending_alerts', ev)
    /\ last_op' = <<"acknowledge_alert", tracking_id,
                    IF DictHas(pending_alerts, tracking_id) THEN "set" ELSE "absent">>
    /\ UNCHANGED <<now, timeout_minutes, alert_callbacks, lock, ev,
                   absence_alerts, create_alert_calls, cb_calls, trackVars, mgrVars, camVars, sysVars>>

acknowledge_alert(tracking_id) ==
    /\ lock = "free"
    /\ IF DictHas(pending_alerts, tracking_id)
       THEN /\ alerts' = [alerts EXCEPT
                   ![DictGet(pending_alerts, tracking_id)].acknowledged = TRUE]
            /\ last_op' = <<"acknowledge_alert", tracking_id, "set">>
       ELSE /\ last_op' = <<"acknowledge_alert", tracking_id, "absent">>
            /\ UNCHANGED alerts
    /\ UNCHANGED <<now, timeout_minutes, pending_alerts, alert_callbacks, lock, ev,
                   absence_alerts, create_alert_calls, cb_calls, trackVars, mgrVars, camVars, sysVars>>

\* AlertManager.get_triggered_alerts(): the alerts of the dict that are triggered
\* and not acknowledged, in the order of the dict
get_triggered_alerts ==
    LET unacknowledged(o) == alerts[o].triggered /\ ~alerts[o].acknowledged
    IN  SelectSeq(DictValues(pending_alerts), unacknowledged)

\* AlertManager.get_statistics()
get_statistics ==
    LET triggered(o) == alerts[o].triggered
        acknowledged(o) == alerts[o].acknowledged
    IN  [total_pending |-> Len(pending_alerts),
         triggered |-> Len(SelectSeq(DictValues(pending_alerts), triggered)),
         acknowledged |-> Len(SelectSeq(DictValues(pending_alerts), acknowledged)),
         unacknowledged |-> Len(SelectSeq(DictValues(pending_alerts), triggered))
                            - Len(SelectSeq(DictValues(pending_alerts), acknowledged))]

----------------------------------------------------------------------------
(* The evaluator: AlertManager._check_alerts and _trigger_alert, one cycle of *)
(* _monitor_loop.  ev[e].pc is the position of thread e.                    *)

\* _check_alerts, the scan loop over list(self.pending_alerts.items()): the alerts
\* for which should_trigger() holds, in the order of the dict
AlertsToTrigger(t) ==
    LET due(a) == should_trigger(alerts[a], t)
    IN  SelectSeq(DictValues(pending_alerts), due)

\* _check_alerts: `with self.lock:` and the scan loop; the trigger loop runs inside
\* the `with` block, so the lock stays held
CheckAlertsScan_unlocked(e) ==
    /\ ev[e].pc = "idle"
    /\ lock = "free"
    /\ UNCHANGED lock
    /\ ev' = [ev EXCEPT ![e] = [@ EXCEPT !.pc = "trigger",
                                         !.alerts_to_trigger = AlertsToTrigger(now),
                                         !.j = 1]]
    /\ last_op' = <<"none">>
    /\ UNCHANGED <<now, timeout_minutes, alerts, pending_alerts, alert_callbacks,
                   absence_alerts, create_alert_calls, cb_calls, trackVars, mgrVars, camVars, sysVars>>

CheckAlertsScan(e) ==
    /\ ev[e].pc = "idle"
    /\ lock = "free"
    /\ lock' = e
    /\ ev' = [ev EXCEPT ![e] = [@ EXCEPT !.pc = "trigger",
                                         !.alerts_to_trigger = AlertsToTrigger(now),
                                         !.j = 1]]
    /\ last_op' = <<"none">>
    /\ UNCHANGED <<now, timeout_minutes, alerts, pending_alerts, alert_callbacks,
                   absence_alerts, create_alert_calls, cb_calls, trackVars, mgrVars, camVars, sysVars>>

\* the alert the trigger loop of thread e is at
CurrentAlert(e) == ev[e].alerts_to_trigger[ev[e].j]

\* Database.create_alert: the row it inserts
AlertRow(alert, t) ==
    [tracking_id |-> alert.tracking_id,
     employee_id |-> alert.employee_id,
     left_at |-> alert.left_at,
     alert_triggered_at |-> t,
     timeout_minutes |-> alert.timeout_minutes]

\* _trigger_alert up to the callbacks: alert.triggered = True, then
\* database.create_alert inside try/except (it inserts the row or raises), then
\* _show_notification and _play_alert_sound, which catch their own exceptions and
\* change no state.  Uncaught, the exception would leave _check_alerts (the `with`
\* block releases the lock) and end the cycle in _monitor_loop's handler.
TriggerAlert_uncaught(e) ==
    /\ ev[e].pc = "trigger"
    /\ ev[e].j <= Len(ev[e].alerts_to_trigger)
    /\ create_alert_calls' =
           [create_alert_calls EXCEPT ![alerts[CurrentAlert(e)].tracking_id] = @ + 1]
    /\ \/ /\ absence_alerts' =
                 Append(absence_alerts, AlertRow(alerts[CurrentAlert(e)], now))
          /\ ev' = [ev EXCEPT ![e] = [@ EXCEPT !.pc = "callbacks", !.c = 1]]
          /\ UNCHANGED lock
       \/ /\ UNCHANGED absence_alerts
          /\ ev' = [ev EXCEPT ![e] = IdleEvaluator]
          /\ lock' = (IF lock = e THEN "free" ELSE lock)
    /\ alerts' = Collect([alerts EXCEPT ![CurrentAlert(e)].triggered = TRUE],
                         pending_alerts, ev')
    /\ last_op' = <<"none">>
    /\ UNCHANGED <<now, timeout_minutes, pending_alerts, alert_callbacks,
                   cb_calls, trackVars, mgrVars, camVars, sysVars>>

TriggerAlert(e) ==
    /\ ev[e].pc = "trigger"
    /\ ev[e].j <= Len(ev[e].alerts_to_trigger)
    /\ alerts' = [alerts EXCEPT ![CurrentAlert(e)].triggered = TRUE]
    /\ create_alert_calls' =
           [create_alert_calls EXCEPT ![alerts[CurrentAlert(e)].tracking_id] = @ + 1]
    /\ \/ absence_alerts' = Append(absence_alerts, AlertRow(alerts[CurrentAlert(e)], now))
       \/ UNCHANGED absence_alerts
    /\ ev' = [ev EXCEPT ![e] = [@ EXCEPT !.pc = "callbacks", !.c = 1]]
    /\ last_op' = <<"none">>
    /\ UNCHANGED <<now, timeout_minutes, pending_alerts, alert_callbacks, lock,
                   cb_calls, trackVars, mgrVars, camVars, sysVars>>

\* _trigger_alert: one iteration of `for callback in self.alert_callbacks`, the call
\* inside try/except
InvokeCallback_uncaught(e) ==
    /\ ev[e].pc = "callbacks"
    /\ ev[e].c <= Len(alert_callbacks)
    /\ cb_calls' = [cb_calls EXCEPT ![alerts[CurrentAlert(e)].tracking_id] =
                       Append(@, ev[e].c)]
    /\ IF alert_callbacks[ev[e].c] = "raises"
       THEN /\ ev' = [ev EXCEPT ![e] = IdleEvaluator]
            /\ lock' = (IF lock = e THEN "free" ELSE lock)
       ELSE /\ ev' = [ev EXCEPT ![e] = [@ EXCEPT !.c = @ + 1]]
            /\ UNCHANGED lock
    /\ alerts' = Collect(alerts, pending_alerts, ev')
    /\ last_op' = <<"none">>
    /\ UNCHANGED <<now, timeout_minutes, pending_alerts, alert_callbacks,
                   absence_alerts, create_alert_calls, trackVars, mgrVars, camVars, sysVars>>

InvokeCallback(e) ==
    /\ ev[e].pc = "callbacks"
    /\ ev[e].c <= Len(alert_callbacks)
    /\ alert_callbacks[ev[e].c] \in CallbackKinds
    /\ cb_calls' = [cb_calls EXCEPT ![alerts[CurrentAlert(e)].tracking_id] =
                       Append(@, ev[e].c)]
    /\ ev' = [ev EXCEPT ![e] = [@ EXCEPT !.c = @ + 1]]
    /\ last_op' = <<"none">>
    /\ UNCHANGED <<now, timeout_minutes, alerts, pending_alerts, alert_callbacks, lock,
                   absence_alerts, create_alert_calls, trackVars, mgrVars, camVars, sysVars>>

\* _trigger_alert returns; the trigger loop goes to the next alert
TriggerDone(e) ==
    /\ ev[e].pc = "callbacks"
    /\ ev[e].c > Len(alert_callbacks)
    /\ ev' = [ev EXCEPT ![e] = [@ EXCEPT !.pc = "trigger", !.j = @ + 1, !.c = 0]]
    /\ alerts' = Collect(alerts, pending_alerts, ev')
    /\ last_op' = <<"none">>
    /\ UNCHANGED <<now, timeout_minutes, pending_alerts, alert_callbacks, lock,
                   absence_alerts, create_alert_calls, cb_calls, trackVars, mgrVars, camVars, sysVars>>

\* _check_alerts: the trigger loop is over, the `with` block releases the lock
CheckAlertsEnd(e) ==
    /\ ev[e].pc = "trigger"
    /\ ev[e].j > Len(ev[e].alerts_to_trigger)
    /\ lock' = (IF lock = e THEN "free" ELSE lock)
    /\ ev' = [ev EXCEPT ![e] = IdleEvaluator]
    /\ last_op' = <<"none">>
    /\ UNCHANGED <<now, timeout_minutes, alerts, pending_alerts, alert_callbacks,
                   absence_alerts, create_alert_calls, cb_calls, trackVars, mgrVars, camVars, sysVars>>

----------------------------------------------------------------------------
(* app/tracking_system.py: CentroidTracker *)

alertState == <<timeout_minutes, alerts, pending_alerts, alert_callbacks, lock, ev,
                absence_alerts, create_alert_calls, cb_calls>>

Cameras == {"cam1", "cam2"}

\* CentroidTracker.max_distance, as TrackingManager.get_tracker and the tests set it
max_distance == TRACKING_MAX_DISTANCE

\* the centers of the detections of a frame: those of the tests, (130, 155) within
\* reach of (125, 150) and (325, 250) out of reach of both
Centers == {<<125, 150>>, <<130, 155>>, <<325, 250>>}

\* detection_engine.Detection of a person centred at c: a box of 50 x 100,
\* confidence 0.9 (in percent)
Detection(c) == [bbox |-> <<c[1] - 25, c[2] - 50, 50, 100>>, confidence |-> 90, center |-> c]

\* the frames: lists of detections of distinct centers
DetectionLists ==
    {detections \in UNION {[1 .. n -> {Detection(c) : c \in Centers}] :
                               n \in 0 .. MaxDetections} :
        \A m, n \in 1 .. Len(detections) :
            m # n => detections[m].center # detections[n].center}

\* the dataclass TrackedPerson, as register constructs it at time t
TrackedPerson(tracking_id, centroid, bbox, confidence, camera_id, t) ==
    [tracking_id |-> tracking_id,
     employee_id |-> "None",
     centroid |-> centroid,
     bbox |-> bbox,
     first_seen |-> t,
     last_seen |-> t,
     disappeared_frames |-> 0,
     is_active |-> TRUE,
     camera_id |-> camera_id,
     confidence |-> confidence]

\* CentroidTracker.__init__
InitTracker ==
    /\ objects = <<>>
    /\ next_object_id = 1
    /\ empty_run = [c \in Cameras |-> 0]

\* TrackingManager.__init__(face_recognition_engine)
InitManager(face_recognition_engine) ==
    /\ trackers = <<>>
    /\ face_recognition = face_recognition_engine
    /\ just_left = [c \in Cameras |-> {}]

\* the consumers of a stream: the pipeline and a reader of the API
Readers == {"r1", "r2"}

\* CameraStream.__init__ and start: the acquisition thread is at the head of its
\* loop, no consumer is in read()
InitCameraStream ==
    /\ frame_queue = <<>>
    /\ last_frame = 0
    /\ frame_count = 0
    /\ captured = 0
    /\ acq = [pc |-> "loop", frame |-> 0, oldest |-> 0]
    /\ rd = [r \in Readers |-> [pc |-> "idle", ret |-> 0, via |-> "none"]]
    /\ stopped = FALSE
    /\ capture = "open"
    /\ info_active = TRUE
    /\ stopper = [pc |-> "idle", at |-> "none", join |-> "none"]

\* the threads of process_cameras and of _monitor_loop that get created, in the
\* order of their creation, and the threads serving requests
Pipelines == {1, 2}
Monitors == {1, 2}
Requests == {"h1", "h2"}

\* main.py at import and AlertManager.__init__: nothing runs, nothing is logged
InitSystem ==
    /\ processing_active = FALSE
    /\ pipeline = [p \in Pipelines |-> [pc |-> "unborn", frame_skip_counter |-> 0]]
    /\ running = FALSE
    /\ monitor = [m \in Monitors |-> [pc |-> "unborn"]]
    /\ req = [h \in Requests |-> "idle"]
    /\ presence_logs = <<>>

\* CentroidTracker.register, on the tracker state tr = [objects, next_object_id]
register_same_id(tr, centroid, bbox, confidence, camera_id, t) ==
    [objects |-> DictSet(tr.objects, tr.next_object_id,
                         TrackedPerson(tr.next_object_id, centroid, bbox, confidence,
                                       camera_id, t)),
     next_object_id |-> tr.next_object_id]

register(tr, centroid, bbox, confidence, camera_id, t) ==
    [objects |-> DictSet(tr.objects, tr.next_object_id,
                         TrackedPerson(tr.next_object_id, centroid, bbox, confidence,
                                       camera_id, t)),
     next_object_id |-> tr.next_object_id + 1]

\* CentroidTracker.deregister: the person stays in the dict, marked inactive
deregister(objs, tracking_id) ==
    [i \in 1 .. Len(objs) |->
        IF objs[i].k = tracking_id
        THEN [k |-> objs[i].k, v |-> [objs[i].v EXCEPT !.is_active = FALSE]]
        ELSE objs[i]]

\* the test `person.disappeared_frames > self.max_disappeared` of update
Departs_at_max(disappeared_frames) == disappeared_frames >= max_disappeared

Departs(disappeared_frames) == disappeared_frames > max_disappeared

\* update, what it does to a person it found no detection for
Disappear(objs, tracking_id, t) ==
    LET seen == [i \in 1 .. Len(objs) |->
                    IF objs[i].k = tracking_id
                    THEN [k |-> objs[i].k,
                          v |-> [objs[i].v EXCEPT !.disappeared_frames = @ + 1,
                                                  !.last_seen = t]]
                    ELSE objs[i]]
    IN  IF Departs(DictGet(seen, tracking_id).disappeared_frames)
        THEN deregister(seen, tracking_id)
        ELSE seen

\* CentroidTracker.get_active_persons(camera_id)
get_active_persons_any(objs, camera_id) ==
    LET seen(e) == e.v.camera_id = camera_id
    IN  SelectSeq(objs, seen)

get_active_persons(objs, camera_id) ==
    LET active(e) == e.v.is_active /\ e.v.camera_id = camera_id
    IN  SelectSeq(objs, active)

RECURSIVE DisappearAll(_, _, _, _)
\* update: the loops that count a missed frame for each of the persons ids[n..]
DisappearAll(objs, ids, n, t) ==
    IF n > Len(ids) THEN objs
    ELSE DisappearAll(Disappear(objs, ids[n], t), ids, n + 1, t)

RECURSIVE RegisterAll(_, _, _, _, _, _)
\* update: the loops that register the detections cols[n..] of the frame
RegisterAll(tr, detections, cols, n, camera_id, t) ==
    IF n > Len(cols) THEN tr
    ELSE RegisterAll(register(tr, detections[cols[n]].center, detections[cols[n]].bbox,
                              detections[cols[n]].confidence, camera_id, t),
                     detections, cols, n + 1, camera_id, t)

\* the sequence of the members of a set of numbers, in ascending order
RECURSIVE Ascending(_)
Ascending(S) ==
    IF S = {} THEN <<>>
    ELSE LET m == CHOOSE x \in S : \A y \in S : x <= y
         IN  <<m>> \o Ascending(S \ {m})

\* dist.cdist: the Euclidean distances, squared (the order and the comparison with
\* max_distance are those of the squares)
SqDist(a, b) == (a[1] - b[1]) * (a[1] - b[1]) + (a[2] - b[2]) * (a[2] - b[2])

cdist(object_centroids, input_centroids) ==
    [r \in 1 .. Len(object_centroids), c \in 1 .. Len(input_centroids) |->
        SqDist(object_centroids[r], input_centroids[c])]

\* D.min(axis=1)
RowMin(D, ncols, r) ==
    CHOOSE d \in {D[r, c] : c \in 1 .. ncols} : \A c \in 1 .. ncols : d <= D[r, c]

\* D.argmin(axis=1): the first column that holds the minimum
ArgMin(D, ncols, r) ==
    CHOOSE c \in 1 .. ncols :
        /\ D[r, c] = RowMin(D, ncols, r)
        /\ \A b \in 1 .. ncols : D[r, b] = RowMin(D, ncols, r) => c <= b

\* D.min(axis=1).argsort(): the orders of the rows by ascending minimum; the order
\* of rows of equal minimum is the sort's choice (the default sort is not stable)
Argsort(D, nrows, ncols) ==
    {rows \in [1 .. nrows -> 1 .. nrows] :
        /\ \A i, j \in 1 .. nrows : i # j => rows[i] # rows[j]
        /\ \A i, j \in 1 .. nrows :
              i < j => RowMin(D, ncols, rows[i]) <= RowMin(D, ncols, rows[j])}

RECURSIVE MatchRows_below_limit(_, _, _, _, _, _)
MatchRows_below_limit(D, ncols, rows, n, used, limit) ==
    IF n > Len(rows) THEN used
    ELSE LET row == rows[n]
             col == CHOOSE c \in 1 .. ncols :
                        /\ \A b \in 1 .. ncols : D[row, c] <= D[row, b]
                        /\ \A b \in 1 .. ncols : D[row, b] = D[row, c] => c <= b
         IN  IF \/ col \in Range(used)
                \/ D[row, col] >= limit * limit
             THEN MatchRows_below_limit(D, ncols, rows, n + 1, used, limit)
             ELSE MatchRows_below_limit(D, ncols, rows, n + 1,
                            [r \in DOMAIN used \cup {row} |->
                                IF r = row THEN col ELSE used[r]], limit)

RECURSIVE MatchRows_any_distance(_, _, _, _, _, _)
MatchRows_any_distance(D, ncols, rows, n, used, limit) ==
    IF n > Len(rows) THEN used
    ELSE LET row == rows[n]
             col == CHOOSE c \in 1 .. ncols :
                        /\ \A b \in 1 .. ncols : D[row, c] <= D[row, b]
                        /\ \A b \in 1 .. ncols : D[row, b] = D[row, c] => c <= b
         IN  IF col \in Range(used)
             THEN MatchRows_any_distance(D, ncols, rows, n + 1, used, limit)
             ELSE MatchRows_any_distance(D, ncols, rows, n + 1,
                            [r \in DOMAIN used \cup {row} |->
                                IF r = row THEN col ELSE used[r]], limit)

RECURSIVE MatchRows_shared_column(_, _, _, _, _, _)
MatchRows_shared_column(D, ncols, rows, n, used, limit) ==
    IF n > Len(rows) THEN used
    ELSE LET row == rows[n]
             col == CHOOSE c \in 1 .. ncols :
                        /\ \A b \in 1 .. ncols : D[row, c] <= D[row, b]
                        /\ \A b \in 1 .. ncols : D[row, b] = D[row, c] => c <= b
         IN  IF D[row, col] > limit * limit
             THEN MatchRows_shared_column(D, ncols, rows, n + 1, used, limit)
             ELSE MatchRows_shared_column(D, ncols, rows, n + 1,
                            [r \in DOMAIN used \cup {row} |->
                                IF r = row THEN col ELSE used[r]], limit)

RECURSIVE MatchRows(_, _, _, _, _, _)
\* update, the matching loop over zip(rows, cols) from position n on: each row is
\* offered the column of its own minimum, and skipped if that column is taken or
\* farther than max_distance; used is the function used row -> used column
MatchRows(D, ncols, rows, n, used, limit) ==
    IF n > Len(rows) THEN used
    ELSE LET row == rows[n]
             col == ArgMin(D, ncols, row)
         IN  IF \/ col \in Range(used)
                \/ D[row, col] > limit * limit
             THEN MatchRows(D, ncols, rows, n + 1, used, limit)
             ELSE MatchRows(D, ncols, rows, n + 1,
                            [r \in DOMAIN used \cup {row} |->
                                IF r = row THEN col ELSE used[r]], limit)

\* update: a matched person takes over the detection
Matched(objs, tracking_id, det, t) ==
    [i \in 1 .. Len(objs) |->
        IF objs[i].k = tracking_id
        THEN [k |-> objs[i].k,
              v |-> [objs[i].v EXCEPT !.centroid = det.center,
                                      !.bbox = det.bbox,
                                      !.confidence = det.confidence,
                                      !.disappeared_frames = 0,
                                      !.last_seen = t]]
        ELSE objs[i]]

RECURSIVE MatchedAll(_, _, _, _, _, _)
MatchedAll(objs, object_ids, detections, used, rows, t) ==
    IF rows = <<>> THEN objs
    ELSE MatchedAll(Matched(objs, object_ids[Head(rows)], detections[used[Head(rows)]], t),
                    object_ids, detections, used, Tail(rows), t)

\* update, after the matching: the matched persons take over their detections,
\* the others are counted a missed frame, the detections left are registered
ApplyMatching(tr, detections, camera_id, t, ids, used) ==
    RegisterAll([tr EXCEPT !.objects =
                    DisappearAll(MatchedAll(tr.objects, ids, detections, used,
                                            Ascending(DOMAIN used), t),
                                 SelectSeq(ids, LAMBDA k :
                                     \A r \in DOMAIN used : ids[r] # k),
                                 1, t)],
                detections, Ascending((1 .. Len(detections)) \ Range(used)), 1,
                camera_id, t)

\* update, with the persons of the camera that are active: their ids in the order
\* of the dict
UpdateActive(tr, detections, camera_id, t, rows, ids) ==
    IF Len(detections) = 0
    THEN [tr EXCEPT !.objects = DisappearAll(tr.objects, ids, 1, t)]
    ELSE IF Len(ids) = 0
    THEN RegisterAll(tr, detections, [n \in 1 .. Len(detections) |-> n], 1, camera_id, t)
    ELSE ApplyMatching(tr, detections, camera_id, t, ids,
             MatchRows(cdist([n \in 1 .. Len(ids) |-> DictGet(tr.objects, ids[n]).centroid],
                             [n \in 1 .. Len(detections) |-> detections[n].center]),
                       Len(detections), rows, 1, <<>>, max_distance))

\* CentroidTracker.update(detections, camera_id) at time t on the tracker state tr,
\* rows being the outcome of the argsort
update(tr, detections, camera_id, t, rows) ==
    UpdateActive(tr, detections, camera_id, t, rows,
                 [n \in 1 .. Len(get_active_persons(tr.objects, camera_id)) |->
                     get_active_persons(tr.objects, camera_id)[n].k])

\* the orders the argsort of update can produce for this call
ArgsortChoices(tr, detections, camera_id) ==
    LET act == get_active_persons(tr.objects, camera_id)
    IN  IF Len(detections) = 0 \/ Len(act) = 0 THEN {<<>>}
        ELSE Argsort(cdist([n \in 1 .. Len(act) |-> act[n].v.centroid],
                           [n \in 1 .. Len(detections) |-> detections[n].center]),
                     Len(act), Len(detections))

\* CentroidTracker.clear_camera
clear_camera_all(objs, camera_id) ==
    [i \in 1 .. Len(objs) |->
        [k |-> objs[i].k, v |-> [objs[i].v EXCEPT !.is_active = FALSE]]]

clear_camera(objs, camera_id) ==
    [i \in 1 .. Len(objs) |->
        IF objs[i].v.camera_id = camera_id
        THEN [k |-> objs[i].k, v |-> [objs[i].v EXCEPT !.is_active = FALSE]]
        ELSE objs[i]]

TrackerState == [objects |-> objects, next_object_id |-> next_object_id]

\* a call of CentroidTracker.update
Update(camera_id, detections) ==
    /\ \E rows \in ArgsortChoices(TrackerState, detections, camera_id) :
          LET tr == update(TrackerState, detections, camera_id, now, rows)
          IN  /\ \A k \in DictKeys(tr.objects) : k \in ObjectIds
              /\ objects' = tr.objects
              /\ next_object_id' = tr.next_object_id
    /\ empty_run' = [empty_run EXCEPT ![camera_id] =
                        IF Len(detections) = 0 THEN Min(@ + 1, max_disappeared + 1) ELSE 0]
    /\ last_op' = <<"none">>
    /\ UNCHANGED <<now, alertState, mgrVars, camVars, sysVars>>

\* a call of CentroidTracker.register
Register(camera_id, det) ==
    /\ next_object_id \in ObjectIds
    /\ LET tr == register(TrackerState, det.center, det.bbox, det.confidence, camera_id, now)
       IN  /\ objects' = tr.objects
           /\ next_object_id' = tr.next_object_id
    /\ empty_run' = [empty_run EXCEPT ![camera_id] = 0]
    /\ last_op' = <<"none">>
    /\ UNCHANGED <<now, alertState, mgrVars, camVars, sysVars>>

\* a call of CentroidTracker.clear_camera
ClearCamera(camera_id) ==
    /\ objects' = clear_camera(objects, camera_id)
    /\ last_op' = <<"none">>
    /\ UNCHANGED <<now, alertState, next_object_id, empty_run, mgrVars, camVars, sysVars>>

\* the instants at which the tracker's clock is read
TrackInstants == {0, 1}

TickTracker ==
    /\ Tick(TrackInstants)
    /\ UNCHANGED <<alertState, trackVars, mgrVars, camVars, sysVars>>

InitTrackerSpec ==
    /\ now = 0
    /\ InitAlertManager(0)
    /\ InitTracker
    /\ InitManager(FALSE)
    /\ InitCameraStream
    /\ InitSystem

NextTracker ==
    \/ TickTracker
    \/ \E c \in Cameras, detections \in DetectionLists : Update(c, detections)
    \/ \E c \in Cameras, p \in Centers : Register(c, Detection(p))
    \/ \E c \in Cameras : ClearCamera(c)

SpecTracker == InitTrackerSpec /\ [][NextTracker]_vars

----------------------------------------------------------------------------
(* One call of CentroidTracker.update on a tracker in any state it can be in *)

\* the centers of the frames of this specification: those above and one at
\* distance 50 exactly from (125, 150), (30, 40) away
MatchCenters == Centers \cup {<<155, 190>>}

MatchDetectionLists ==
    {detections \in UNION {[1 .. n -> {Detection(c) : c \in MatchCenters}] :
                               n \in 0 .. MaxDetections} :
        \A m, n \in 1 .. Len(detections) :
            m # n => detections[m].center # detections[n].center}

\* a person registered at time 0 that was then missed for some frames, up to its
\* departure
SeenPersons(tracking_id) ==
    {[TrackedPerson(tracking_id, c, Detection(c).bbox, Detection(c).confidence, cam, 0)
         EXCEPT !.disappeared_frames = df, !.is_active = ~Departs(df)] :
        c \in MatchCenters, cam \in Cameras, df \in {0, max_disappeared, max_disappeared + 1}}

\* the trackers that hold the persons 1 .. n
TrackersOf(n) ==
    {[k \in 1 .. n |-> [k |-> k, v |-> f[k]]] :
        f \in {g \in [1 .. n -> UNION {SeenPersons(k) : k \in 1 .. n}] :
                  \A k \in 1 .. n : g[k].tracking_id = k}}

InitMatch ==
    /\ now = 1
    /\ InitAlertManager(0)
    /\ \E n \in 0 .. Cardinality(ObjectIds) :
          /\ objects \in TrackersOf(n)
          /\ next_object_id = n + 1
    /\ empty_run = [c \in Cameras |-> 0]
    /\ InitManager(FALSE)
    /\ InitCameraStream
    /\ InitSystem

\* the one call of update; last_op keeps its arguments and the dict it was called on
UpdateOnce(camera_id, detections) ==
    /\ last_op = <<"none">>
    /\ \E rows \in ArgsortChoices(TrackerState, detections, camera_id) :
          LET tr == update(TrackerState, detections, camera_id, now, rows)
          IN  /\ objects' = tr.objects
              /\ next_object_id' = tr.next_object_id
    /\ empty_run' = [empty_run EXCEPT ![camera_id] =
                        IF Len(detections) = 0 THEN Min(@ + 1, max_disappeared + 1) ELSE 0]
    /\ last_op' = <<"update", camera_id, detections, objects>>
    /\ UNCHANGED <<now, alertState, mgrVars, camVars, sysVars>>

NextMatch == \E c \in Cameras, detections \in MatchDetectionLists : UpdateOnce(c, detections)

SpecMatch == InitMatch /\ [][NextMatch]_vars

----------------------------------------------------------------------------
(* One call of CentroidTracker.update or clear_camera on a tracker shared by the
   cameras, in any state it can be in *)

\* the one call of clear_camera; last_op keeps the camera and the dict it was
\* called on
ClearCameraOnce(camera_id) ==
    /\ last_op = <<"none">>
    /\ objects' = clear_camera(objects, camera_id)
    /\ last_op' = <<"clear_camera", camera_id, <<>>, objects>>
    /\ UNCHANGED <<now, alertState, next_object_id, empty_run, mgrVars, camVars, sysVars>>

NextShared ==
    \/ \E c \in Cameras, detections \in MatchDetectionLists : UpdateOnce(c, detections)
    \/ \E c \in Cameras : ClearCameraOnce(c)

SpecShared == InitMatch /\ [][NextShared]_vars

----------------------------------------------------------------------------
(* TrackingManager: one CentroidTracker per camera, with face recognition *)

\* what FaceRecognitionEngine.identify_face returns: an employee id or None
Faces == {"None", "EMP001"}

\* the frame handed to TrackingManager.update: an image or None
Frames == {"None", "frame"}

\* CentroidTracker.__init__, as a tracker state
NewTracker == [objects |-> <<>>, next_object_id |-> 1]

\* TrackingManager.get_tracker: the dict trackers after the call
get_tracker(trs, camera_id) ==
    IF DictHas(trs, camera_id) THEN trs ELSE DictSet(trs, camera_id, NewTracker)

\* CentroidTracker.set_employee_id
set_employee_id(objs, tracking_id, employee_id) ==
    [i \in 1 .. Len(objs) |->
        IF objs[i].k = tracking_id
        THEN [k |-> objs[i].k, v |-> [objs[i].v EXCEPT !.employee_id = employee_id]]
        ELSE objs[i]]

\* what identify_face returns for person k: faces[k], None for a person out of the
\* ids of the model
IdentifyFace(faces, k) == IF k \in DOMAIN faces THEN faces[k] ELSE "None"

\* TrackingManager.update: `if person.is_active and person.employee_id is None`
NeedsIdentity_any_active(person) == person.is_active

NeedsIdentity(person) == person.is_active /\ person.employee_id = "None"

RECURSIVE IdentifyAll(_, _, _)
\* TrackingManager.update, the face recognition loop from entry n of the dict on
IdentifyAll(objs, n, faces) ==
    IF n > Len(objs) THEN objs
    ELSE IF /\ NeedsIdentity(objs[n].v)
            /\ IdentifyFace(faces, objs[n].k) # "None"
         THEN IdentifyAll(set_employee_id(objs, objs[n].k, IdentifyFace(faces, objs[n].k)),
                          n + 1, faces)
         ELSE IdentifyAll(objs, n + 1, faces)

\* TrackingManager.update, after tracker.update: the face recognition, on the
\* tracker state tr that tracker.update left
Recognize(tr, engine, frame, faces) ==
    IF engine /\ frame # "None"
    THEN [tr EXCEPT !.objects = IdentifyAll(@, 1, faces)]
    ELSE tr

\* TrackingManager.update: the persons identify_face is called for, in the dict
\* that tracker.update left
ResolverCalls(objs, engine, frame) ==
    IF engine /\ frame # "None"
    THEN {objs[n].k : n \in {m \in 1 .. Len(objs) : NeedsIdentity(objs[m].v)}}
    ELSE {}

\* TrackingManager.get_active_persons(camera_id): every active person of the
\* camera's tracker
TrackingManager_get_active_persons(trs, camera_id) ==
    LET active(e) == e.v.is_active
    IN  SelectSeq(DictGet(get_tracker(trs, camera_id), camera_id).objects, active)

\* CentroidTracker.get_active_persons() without a camera
get_all_active_persons(objs) ==
    LET active(e) == e.v.is_active
    IN  SelectSeq(objs, active)

RECURSIVE DictUpdate(_, _)
\* dict.update(other): the entries of other set one by one
DictUpdate(d, other) ==
    IF other = <<>> THEN d
    ELSE DictUpdate(DictSet(d, Head(other).k, Head(other).v), Tail(other))

RECURSIVE AllActivePersons(_, _)
\* TrackingManager.get_active_persons() without a camera: the loop over
\* self.trackers.values() from tracker n on, all_persons being the dict so far
AllActivePersons(trs, all_persons) ==
    IF trs = <<>> THEN all_persons
    ELSE AllActivePersons(Tail(trs),
                          DictUpdate(all_persons, get_all_active_persons(Head(trs).v.objects)))

RECURSIVE total_active(_)
\* TrackingManager.get_statistics()['total_active']
total_active(trs) ==
    IF trs = <<>> THEN 0
    ELSE Len(get_all_active_persons(Head(trs).v.objects)) + total_active(Tail(trs))

\* TrackingManager.get_newly_left_persons(camera_id): the list it returns
get_newly_left_persons(trs, camera_id) ==
    LET left(e) == /\ ~e.v.is_active
                   /\ e.v.camera_id = camera_id
                   /\ e.v.disappeared_frames = max_disappeared + 1
    IN  DictValues(SelectSeq(DictGet(get_tracker(trs, camera_id), camera_id).objects, left))

\* TrackingManager.clear_camera: the dict trackers after the call
TrackingManager_clear_camera(trs, camera_id) ==
    IF DictHas(trs, camera_id)
    THEN DictSet(trs, camera_id,
                 [DictGet(trs, camera_id) EXCEPT !.objects = clear_camera(@, camera_id)])
    ELSE trs

\* the number of persons the trackers hold
RECURSIVE TotalTracked(_)
TotalTracked(trs) ==
    IF trs = <<>> THEN 0 ELSE Len(Head(trs).v.objects) + TotalTracked(Tail(trs))

\* the persons of the tracker that are active in objs and no more in after
Departed(objs, after) ==
    {objs[i].k : i \in {j \in 1 .. Len(objs) :
                          objs[j].v.is_active /\ ~DictGet(after, objs[j].k).is_active}}

\* what identify_face can return for the persons during one update; it is not
\* called without an engine or without a frame
FaceChoices(frame, results) ==
    IF face_recognition /\ frame # "None"
    THEN [ObjectIds -> results]
    ELSE {[k \in ObjectIds |-> "None"]}

\* the frames of the cameras of the manager: the two persons of the tests
ManagerCenters == {<<125, 150>>, <<325, 250>>}

ManagerDetectionLists ==
    {detections \in DetectionLists :
        \A n \in 1 .. Len(detections) : detections[n].center \in ManagerCenters}

\* a call of TrackingManager.update(camera_id, detections, frame), identify_face
\* returning one of results; if recorded, last_op keeps the camera, the persons
\* identify_face was called for and the dict returned
TrackingManagerUpdate(camera_id, detections, results, recorded) ==
    /\ \E rows \in ArgsortChoices(DictGet(get_tracker(trackers, camera_id), camera_id),
                                  detections, camera_id) :
       \E updated \in {update(DictGet(get_tracker(trackers, camera_id), camera_id),
                              detections, camera_id, now, rows)} :
       \E frame \in Frames :
       \E faces \in FaceChoices(frame, results) :
       \E tr \in {Recognize(updated, face_recognition, frame, faces)} :
          /\ \A k \in DictKeys(tr.objects) : k \in ObjectIds
          /\ trackers' = DictSet(get_tracker(trackers, camera_id), camera_id, tr)
          /\ TotalTracked(trackers') <= Cardinality(ObjectIds)
          /\ just_left' = [just_left EXCEPT ![camera_id] =
                              Departed(DictGet(get_tracker(trackers, camera_id),
                                               camera_id).objects, tr.objects)]
          /\ last_op' = IF recorded
                         THEN <<"TrackingManager.update", camera_id,
                                ResolverCalls(updated.objects, face_recognition, frame),
                                tr.objects>>
                         ELSE <<"none">>
    /\ UNCHANGED <<now, alertState, trackVars, face_recognition, camVars, sysVars>>

ManagerUpdate(camera_id, detections) ==
    TrackingManagerUpdate(camera_id, detections, Faces, FALSE)

\* a call of TrackingManager.get_newly_left_persons or of
\* TrackingManager.get_active_persons(camera_id): it creates the camera's tracker
ManagerQuery(camera_id) ==
    /\ trackers' = get_tracker(trackers, camera_id)
    /\ last_op' = <<"none">>
    /\ UNCHANGED <<now, alertState, trackVars, face_recognition, just_left, camVars, sysVars>>

\* a call of TrackingManager.clear_camera
ManagerClearCamera(camera_id) ==
    /\ trackers' = TrackingManager_clear_camera(trackers, camera_id)
    /\ last_op' = <<"none">>
    /\ UNCHANGED <<now, alertState, trackVars, face_recognition, just_left, camVars, sysVars>>

TickManager ==
    /\ Tick(TrackInstants)
    /\ UNCHANGED <<alertState, trackVars, mgrVars, camVars, sysVars>>

InitManagerSpec ==
    /\ now = 0
    /\ InitAlertManager(0)
    /\ InitTracker
    /\ \E engine \in BOOLEAN : InitManager(engine)
    /\ InitCameraStream
    /\ InitSystem

NextManager ==
    \/ TickManager
    \/ \E c \in Cameras, detections \in ManagerDetectionLists : ManagerUpdate(c, detections)
    \/ \E c \in Cameras : ManagerQuery(c)
    \/ \E c \in Cameras : ManagerClearCamera(c)

SpecManager == InitManagerSpec /\ [][NextManager]_vars

----------------------------------------------------------------------------
(* TrackingManager.update seen from its caller: what it returns and whom it asks
   the face recognition about, on one camera *)

\* identify_face tells two employees apart
ResolverFaces == Faces \cup {"EMP002"}

ManagerUpdateCall(camera_id, detections) ==
    TrackingManagerUpdate(camera_id, detections, ResolverFaces, TRUE)

InitResolver ==
    /\ now = 0
    /\ InitAlertManager(0)
    /\ InitTracker
    /\ InitManager(TRUE)
    /\ InitCameraStream
    /\ InitSystem

NextResolver ==
    \/ TickManager
    \/ \E detections \in ManagerDetectionLists : ManagerUpdateCall("cam1", detections)
    \/ ManagerClearCamera("cam1")

SpecResolver == InitResolver /\ [][NextResolver]_vars

----------------------------------------------------------------------------
(* CameraStream: the acquisition thread (_update) and the consumers (read) of a
   started stream.  A frame is the number of the capture.read() that returned
   it; last_frame and ret are 0 for None.  The statements under `with self.lock`
   are one step each. *)

notCamera == <<now, alertState, trackVars, mgrVars, sysVars>>

\* what the head of the loop finds: the capture closed, a failed read, or a frame
CaptureOutcomes == {"closed", "failed", "frame"}

\* _update: the test of `while not self.stopped`
LoopRuns_forever == TRUE

LoopRuns == ~stopped

\* _update, the head of an iteration up to capture.read(): a closed capture or a
\* failed read go to sleep, a frame goes on to be published; a released capture
\* is closed or fails the read
Capture(outcome) ==
    /\ acq.pc = "loop"
    /\ LoopRuns
    /\ IF outcome = "frame"
       THEN /\ capture = "open"
            /\ captured < MaxFrames
            /\ captured' = captured + 1
            /\ acq' = [pc |-> "publish", frame |-> captured + 1, oldest |-> 0]
       ELSE /\ acq' = [acq EXCEPT !.pc = "sleep"]
            /\ UNCHANGED captured
    /\ last_op' = <<"none">>
    /\ UNCHANGED <<frame_queue, last_frame, frame_count, rd, notCamera, stopVars>>

\* _update: `time.sleep(...)` is over, `continue`
Wake ==
    /\ acq.pc = "sleep"
    /\ acq' = [acq EXCEPT !.pc = "loop"]
    /\ last_op' = <<"none">>
    /\ UNCHANGED <<frame_queue, last_frame, frame_count, captured, rd, notCamera, stopVars>>

\* _update: the loop test fails, the thread ends
LoopExit ==
    /\ acq.pc = "loop"
    /\ ~LoopRuns
    /\ acq' = [acq EXCEPT !.pc = "done"]
    /\ last_op' = <<"none">>
    /\ UNCHANGED <<frame_queue, last_frame, frame_count, captured, rd, notCamera, stopVars>>

\* _update: `with self.lock: self.last_frame = frame; self.frame_count += 1`
Publish_count_only ==
    /\ acq.pc = "publish"
    /\ frame_count' = frame_count + 1
    /\ acq' = [acq EXCEPT !.pc = "full"]
    /\ last_op' = <<"none">>
    /\ UNCHANGED <<last_frame, frame_queue, captured, rd, notCamera, stopVars>>

Publish ==
    /\ acq.pc = "publish"
    /\ last_frame' = acq.frame
    /\ frame_count' = frame_count + 1
    /\ acq' = [acq EXCEPT !.pc = "full"]
    /\ last_op' = <<"none">>
    /\ UNCHANGED <<frame_queue, captured, rd, notCamera, stopVars>>

\* _update: `if not self.frame_queue.full()`; oldest keeps the frame at the head
\* of a full queue
CheckFull ==
    /\ acq.pc = "full"
    /\ acq' = IF Len(frame_queue) < buffer_size
              THEN [acq EXCEPT !.pc = "put"]
              ELSE [acq EXCEPT !.pc = "get_nowait", !.oldest = Head(frame_queue)]
    /\ last_op' = <<"none">>
    /\ UNCHANGED <<frame_queue, last_frame, frame_count, captured, rd, notCamera, stopVars>>

\* _update: `self.frame_queue.put(frame)`, in either branch; put blocks while the
\* queue is full
Put ==
    /\ acq.pc = "put"
    /\ Len(frame_queue) < buffer_size
    /\ frame_queue' = Append(frame_queue, acq.frame)
    /\ acq' = [acq EXCEPT !.pc = "loop"]
    /\ last_op' = <<"none">>
    /\ UNCHANGED <<last_frame, frame_count, captured, rd, notCamera, stopVars>>

\* _update: `self.frame_queue.get_nowait()` in the try; on queue.Empty the bare
\* except passes and the iteration ends
GetNowait ==
    /\ acq.pc = "get_nowait"
    /\ IF frame_queue # <<>>
       THEN /\ frame_queue' = Tail(frame_queue)
            /\ acq' = [acq EXCEPT !.pc = "put"]
       ELSE /\ acq' = [acq EXCEPT !.pc = "loop"]
            /\ UNCHANGED frame_queue
    /\ last_op' = <<"none">>
    /\ UNCHANGED <<last_frame, frame_count, captured, rd, notCamera, stopVars>>

\* read: `if self.frame_queue.empty()`
ReadCheckEmpty(r) ==
    /\ rd[r].pc = "idle"
    /\ rd' = [rd EXCEPT ![r].pc = IF frame_queue = <<>> THEN "last" ELSE "get"]
    /\ last_op' = <<"none">>
    /\ UNCHANGED <<frame_queue, last_frame, frame_count, captured, acq, notCamera, stopVars>>

\* read: `return self.frame_queue.get(timeout=1)`; on an empty queue it waits, and
\* falls to the except branch when the second is over
ReadGet(r) ==
    /\ rd[r].pc = "get"
    /\ IF frame_queue # <<>>
       THEN /\ rd' = [rd EXCEPT ![r] = [pc |-> "idle", ret |-> Head(frame_queue),
                                        via |-> "queue"]]
            /\ frame_queue' = Tail(frame_queue)
       ELSE /\ rd' = [rd EXCEPT ![r].pc = "last"]
            /\ UNCHANGED frame_queue
    /\ last_op' = <<"none">>
    /\ UNCHANGED <<last_frame, frame_count, captured, acq, notCamera, stopVars>>

\* read: `with self.lock: return self.last_frame`, of either branch
ReadLast(r) ==
    /\ rd[r].pc = "last"
    /\ rd' = [rd EXCEPT ![r] = [pc |-> "idle", ret |-> last_frame, via |-> "last"]]
    /\ last_op' = <<"none">>
    /\ UNCHANGED <<frame_queue, last_frame, frame_count, captured, acq, notCamera, stopVars>>

InitCamera ==
    /\ now = 0
    /\ InitAlertManager(0)
    /\ InitTracker
    /\ InitManager(FALSE)
    /\ InitCameraStream
    /\ InitSystem

NextCamera ==
    \/ \E outcome \in CaptureOutcomes : Capture(outcome)
    \/ Wake
    \/ Publish
    \/ CheckFull
    \/ Put
    \/ GetNowait
    \/ \E r \in Readers : ReadCheckEmpty(r)
    \/ \E r \in Readers : ReadGet(r)
    \/ \E r \in Readers : ReadLast(r)

SpecCamera == InitCamera /\ [][NextCamera]_vars

----------------------------------------------------------------------------
(* CameraStream.stop() on the running stream, and the queries on its health *)

notStopper == <<frame_queue, last_frame, frame_count, captured, acq, rd, notCamera>>

\* CameraStream.is_active()
is_active == info_active /\ ~stopped

\* CameraStream.get_latest_frame()
get_latest_frame == last_frame

\* CameraManager.get_frame(camera_id) for the stream, registered under camera_id
get_frame == IF is_active THEN get_latest_frame ELSE 0

\* stop: `self.stopped = True`; at keeps where the acquisition thread was
StopBegin ==
    /\ stopper.pc = "idle"
    /\ stopped' = TRUE
    /\ stopper' = [stopper EXCEPT !.pc = "join", !.at = acq.pc]
    /\ last_op' = <<"none">>
    /\ UNCHANGED <<capture, info_active, notStopper>>

\* stop: `self.thread.join(timeout=2)` returns, the thread ended or the two
\* seconds over
StopJoin ==
    /\ stopper.pc = "join"
    /\ stopper' = [stopper EXCEPT !.pc = "release",
                                  !.join = IF acq.pc = "done" THEN "joined" ELSE "timeout"]
    /\ last_op' = <<"none">>
    /\ UNCHANGED <<stopped, capture, info_active, notStopper>>

\* stop: `self.capture.release()`
StopRelease ==
    /\ stopper.pc = "release"
    /\ capture' = "released"
    /\ stopper' = [stopper EXCEPT !.pc = "inactive"]
    /\ last_op' = <<"none">>
    /\ UNCHANGED <<stopped, info_active, notStopper>>

\* stop: `self.camera_info.is_active = False`, and the return
StopReturn ==
    /\ stopper.pc = "inactive"
    /\ info_active' = FALSE
    /\ stopper' = [stopper EXCEPT !.pc = "done"]
    /\ last_op' = <<"none">>
    /\ UNCHANGED <<stopped, capture, notStopper>>

\* the steps of the acquisition thread
AcquisitionStep ==
    \/ \E outcome \in CaptureOutcomes : Capture(outcome)
    \/ Wake
    \/ LoopExit
    \/ Publish
    \/ CheckFull
    \/ Put
    \/ GetNowait

NextStop ==
    \/ AcquisitionStep
    \/ StopBegin
    \/ StopJoin
    \/ StopRelease
    \/ StopReturn
    \/ \E r \in Readers : ReadCheckEmpty(r)
    \/ \E r \in Readers : ReadGet(r)
    \/ \E r \in Readers : ReadLast(r)

\* the stream with stop(); both threads get to run
SpecStop ==
    /\ InitCamera
    /\ [][NextStop]_vars
    /\ WF_vars(AcquisitionStep)
    /\ WF_vars(StopJoin \/ StopRelease \/ StopReturn)

----------------------------------------------------------------------------
(* app/main.py: start_system, stop_system and the loop of process_cameras;
   app/alert_manager.py: AlertManager.start, stop and _monitor_loop.  The
   requests are served by threads (SocketIO async_mode 'threading'), a statement
   is one step.  One camera is registered and runs; the floor it shows is empty,
   detection_engine.detect returns no detection, so nothing is pending in the
   scheduler. *)

notSystem == <<now, alertState, trackVars, face_recognition, just_left, camVars,
               presence_logs>>

\* a request thread is between two requests: it has served none, or has returned
\* 'System started', 'System already running' or 'System stopped'
AtRest(h) == req[h] \in {"idle", "started", "refused", "stopped"}

\* the requests that are in start_system and have not created their thread yet
Unspawned(positions) == {h \in Requests : req[h] \in positions}

Unborn(threads) == {t \in DOMAIN threads : threads[t].pc = "unborn"}

\* the next thread object Thread(...) creates
NextThread(threads) == CHOOSE t \in Unborn(threads) : \A u \in Unborn(threads) : t <= u

Goto(h, pc) == req' = [req EXCEPT ![h] = pc]

\* a POST of /api/system/start arrives; the threads it may create exist
StartSystem(h) ==
    /\ AtRest(h)
    /\ Cardinality(Unborn(pipeline))
          > Cardinality(Unspawned({"start_test", "start_set", "start_spawn"}))
    /\ Cardinality(Unborn(monitor))
          > Cardinality(Unspawned({"start_test", "start_set", "start_spawn",
                                   "am_start_test", "am_start_set", "am_start_spawn"}))
    /\ Goto(h, "start_test")
    /\ last_op' = <<"none">>
    /\ UNCHANGED <<processing_active, pipeline, running, monitor, trackers, notSystem>>

\* start_system: `if not processing_active:`, else the refusal
StartTest(h) ==
    /\ req[h] = "start_test"
    /\ Goto(h, IF ~processing_active THEN "start_set" ELSE "refused")
    /\ last_op' = <<"none">>
    /\ UNCHANGED <<processing_active, pipeline, running, monitor, trackers, notSystem>>

\* start_system: `processing_active = True`
StartSet(h) ==
    /\ req[h] = "start_set"
    /\ processing_active' = TRUE
    /\ Goto(h, "start_spawn")
    /\ last_op' = <<"none">>
    /\ UNCHANGED <<pipeline, running, monitor, trackers, notSystem>>

\* start_system: `processing_thread = Thread(target=process_cameras)` and its
\* start(): a new loop is at its `while`
StartSpawn(h) ==
    /\ req[h] = "start_spawn"
    /\ pipeline' = [pipeline EXCEPT ![NextThread(pipeline)].pc = "test"]
    /\ Goto(h, "am_start_test")
    /\ last_op' = <<"none">>
    /\ UNCHANGED <<processing_active, running, monitor, trackers, notSystem>>

\* AlertManager.start: `if not self.running:`, else start_system returns
AlertStartTest(h) ==
    /\ req[h] = "am_start_test"
    /\ Goto(h, IF ~running THEN "am_start_set" ELSE "started")
    /\ last_op' = <<"none">>
    /\ UNCHANGED <<processing_active, pipeline, running, monitor, trackers, notSystem>>

\* AlertManager.start: `self.running = True`
AlertStartSet(h) ==
    /\ req[h] = "am_start_set"
    /\ running' = TRUE
    /\ Goto(h, "am_start_spawn")
    /\ last_op' = <<"none">>
    /\ UNCHANGED <<processing_active, pipeline, monitor, trackers, notSystem>>

\* AlertManager.start: the monitor thread is created and started; start_system
\* returns
AlertStartSpawn(h) ==
    /\ req[h] = "am_start_spawn"
    /\ monitor' = [monitor EXCEPT ![NextThread(monitor)].pc = "test"]
    /\ Goto(h, "started")
    /\ last_op' = <<"none">>
    /\ UNCHANGED <<processing_active, pipeline, running, trackers, notSystem>>

\* a POST of /api/system/stop arrives: `processing_active = False`
StopSystem(h) ==
    /\ AtRest(h)
    /\ processing_active' = FALSE
    /\ Goto(h, "am_stop")
    /\ last_op' = <<"none">>
    /\ UNCHANGED <<pipeline, running, monitor, trackers, notSystem>>

\* AlertManager.stop: `self.running = False`
AlertStop(h) ==
    /\ req[h] = "am_stop"
    /\ running' = FALSE
    /\ Goto(h, "am_stop_join")
    /\ last_op' = <<"none">>
    /\ UNCHANGED <<processing_active, pipeline, monitor, trackers, notSystem>>

\* AlertManager.stop: `self.monitor_thread.join(timeout=5)` returns, the thread
\* ended or the five seconds over; stop_system returns
AlertStopJoin(h) ==
    /\ req[h] = "am_stop_join"
    /\ Goto(h, "stopped")
    /\ last_op' = <<"none">>
    /\ UNCHANGED <<processing_active, pipeline, running, monitor, trackers, notSystem>>

\* process_cameras: the test of `while processing_active`
PipelineTest(p) ==
    /\ pipeline[p].pc = "test"
    /\ pipeline' = [pipeline EXCEPT ![p].pc = IF processing_active THEN "frame" ELSE "done"]
    /\ last_op' = <<"none">>
    /\ UNCHANGED <<processing_active, running, monitor, req, trackers, notSystem>>

\* process_cameras, from get_active_cameras to the call of tracking_manager.update
\* for the camera: no frame yet, or a frame that is skipped, end the pass
PipelineGetFrame(p) ==
    /\ pipeline[p].pc = "frame"
    /\ pipeline' = [pipeline EXCEPT ![p] =
          IF get_frame = 0
          THEN [@ EXCEPT !.pc = "sleep"]
          ELSE [pc |-> IF (@.frame_skip_counter + 1) % FRAME_SKIP # 0
                       THEN "sleep" ELSE "update",
                frame_skip_counter |-> (@.frame_skip_counter + 1) % FRAME_SKIP]]
    /\ last_op' = <<"none">>
    /\ UNCHANGED <<processing_active, running, monitor, req, trackers, notSystem>>

\* process_cameras: tracking_manager.update(camera_id, [], frame) returns, and the
\* rest of the pass: nobody is active, nobody left
PipelineUpdate(p) ==
    /\ pipeline[p].pc = "update"
    /\ trackers' = DictSet(get_tracker(trackers, "cam1"), "cam1",
                           update(DictGet(get_tracker(trackers, "cam1"), "cam1"),
                                  <<>>, "cam1", now, <<>>))
    /\ pipeline' = [pipeline EXCEPT ![p].pc = "sleep"]
    /\ last_op' = <<"none">>
    /\ UNCHANGED <<processing_active, running, monitor, req, notSystem>>

\* process_cameras: `time.sleep(0.01)` is over
PipelineSleep(p) ==
    /\ pipeline[p].pc = "sleep"
    /\ pipeline' = [pipeline EXCEPT ![p].pc = "test"]
    /\ last_op' = <<"none">>
    /\ UNCHANGED <<processing_active, running, monitor, req, trackers, notSystem>>

\* _monitor_loop: the test of `while self.running`
MonitorTest(m) ==
    /\ monitor[m].pc = "test"
    /\ monitor' = [monitor EXCEPT ![m].pc = IF running THEN "check" ELSE "done"]
    /\ last_op' = <<"none">>
    /\ UNCHANGED <<processing_active, pipeline, running, req, trackers, notSystem>>

\* _monitor_loop: _check_alerts() takes the lock, finds nothing due and releases it
MonitorCheck(m) ==
    /\ monitor[m].pc = "check"
    /\ lock = "free"
    /\ AlertsToTrigger(now) = <<>>
    /\ monitor' = [monitor EXCEPT ![m].pc = "sleep"]
    /\ last_op' = <<"none">>
    /\ UNCHANGED <<processing_active, pipeline, running, req, trackers, notSystem>>

\* _monitor_loop: `time.sleep(config.ALERT_CHECK_INTERVAL)` is over
MonitorSleep(m) ==
    /\ monitor[m].pc = "sleep"
    /\ monitor' = [monitor EXCEPT ![m].pc = "test"]
    /\ last_op' = <<"none">>
    /\ UNCHANGED <<processing_active, pipeline, running, req, trackers, notSystem>>

\* the steps of a request once it has arrived
RequestStep(h) ==
    \/ StartTest(h)
    \/ StartSet(h)
    \/ StartSpawn(h)
    \/ AlertStartTest(h)
    \/ AlertStartSet(h)
    \/ AlertStartSpawn(h)
    \/ AlertStop(h)
    \/ AlertStopJoin(h)

PipelineStep(p) ==
    \/ PipelineTest(p)
    \/ PipelineGetFrame(p)
    \/ PipelineUpdate(p)
    \/ PipelineSleep(p)

MonitorStep(m) ==
    \/ MonitorTest(m)
    \/ MonitorCheck(m)
    \/ MonitorSleep(m)

\* the steps of the acquisition thread of the registered camera, which nothing
\* stops
StreamStep ==
    \/ \E outcome \in CaptureOutcomes : Capture(outcome)
    \/ Wake
    \/ Publish
    \/ CheckFull
    \/ Put
    \/ GetNowait

InitSystemSpec ==
    /\ now = 0
    /\ InitAlertManager(0)
    /\ InitTracker
    /\ InitManager(FALSE)
    /\ InitCameraStream
    /\ InitSystem

\* the steps of the system when the threads of the set serving serve the requests
SystemStep(serving) ==
    \/ \E h \in serving : StartSystem(h)
    \/ \E h \in serving : StopSystem(h)
    \/ \E h \in serving : RequestStep(h)
    \/ \E p \in Pipelines : PipelineStep(p)
    \/ \E m \in Monitors : MonitorStep(m)
    \/ StreamStep

NextSystem == SystemStep(Requests)

SpecSystem == InitSystemSpec /\ [][NextSystem]_vars

\* the requests arrive one after the other, and every thread gets to run: a
\* request that has arrived is served to its end, the loops go on
NextShutdown == SystemStep({"h1"})

SpecShutdown ==
    /\ InitSystemSpec
    /\ [][NextShutdown]_vars
    /\ WF_vars(RequestStep("h1"))
    /\ \A p \in Pipelines : WF_vars(PipelineStep(p))
    /\ \A m \in Monitors : WF_vars(MonitorStep(m))
    /\ WF_vars(StreamStep)

----------------------------------------------------------------------------
(* app/main.py: the body of the loop of process_cameras for one camera whose
   frame is processed (lines 57-88), with app/database.py behind it.  Face
   recognition is disabled (config.FACE_RECOGNITION_ENABLED): identify_face
   returns None.  A Database method that fails raises (get_connection rolls back
   and re-raises), and the exception ends the pass at `except Exception`. *)

\* the first Database call of the pass that raises, if any does
Failures == {"none", "get_active_presences", "log_entry", "log_exit"}

\* Database.get_active_presences(camera_id): the open rows of the camera
get_active_presences(logs, camera_id) ==
    LET open(row) == row.camera_id = camera_id /\ ~row.exited
    IN  SelectSeq(logs, open)

\* Database.log_entry: the table after the insert
log_entry(logs, tracking_id, camera_id, employee_id) ==
    Append(logs, [tracking_id |-> tracking_id, camera_id |-> camera_id,
                  employee_id |-> employee_id, exited |-> FALSE])

\* Database.log_exit: the most recent open row of the person on the camera gets
\* its exit_time
log_exit(logs, tracking_id, camera_id) ==
    LET open == {i \in 1 .. Len(logs) : /\ logs[i].tracking_id = tracking_id
                                        /\ logs[i].camera_id = camera_id
                                        /\ ~logs[i].exited}
    IN  IF open = {} THEN logs
        ELSE [logs EXCEPT ![CHOOSE i \in open : \A j \in open : j <= i].exited = TRUE]

\* process_cameras: is the person without an open row on the camera
IsNewEntry(logs, tracking_id, camera_id) ==
    \A n \in 1 .. Len(get_active_presences(logs, camera_id)) :
        get_active_presences(logs, camera_id)[n].tracking_id # tracking_id

\* process_cameras, the loop over active_persons from its n-th item on
RECURSIVE LogEntries(_, _, _, _)
LogEntries(logs, active_persons, n, camera_id) ==
    IF n > Len(active_persons) THEN logs
    ELSE LogEntries(IF IsNewEntry(logs, active_persons[n].k, camera_id)
                    THEN log_entry(logs, active_persons[n].k, camera_id,
                                   active_persons[n].v.employee_id)
                    ELSE logs,
                    active_persons, n + 1, camera_id)

\* process_cameras, the loop over newly_left from its n-th item on: the exits
RECURSIVE LogExits(_, _, _, _)
LogExits(logs, newly_left, n, camera_id) ==
    IF n > Len(newly_left) THEN logs
    ELSE LogExits(log_exit(logs, newly_left[n].tracking_id, camera_id),
                  newly_left, n + 1, camera_id)

\* AlertManager.add_pending_alert(person) on the scheduler state st = [alerts,
\* pending_alerts]
AddPendingAlert(st, person) ==
    IF DictHas(st.pending_alerts, person.tracking_id) THEN st
    ELSE LET slot == CHOOSE o \in Slots :
                        /\ st.alerts[o] = NoAlert
                        /\ \A p \in Slots : p < o => st.alerts[p] # NoAlert
         IN  [alerts |-> [st.alerts EXCEPT ![slot] =
                             NewAlert(person.tracking_id,
                                      IF person.employee_id = "None" THEN "Unknown"
                                      ELSE person.employee_id,
                                      person.last_seen, timeout_minutes)],
              pending_alerts |-> DictSet(st.pending_alerts, person.tracking_id, slot)]

\* process_cameras, the loop over newly_left from its n-th item on: the alerts
RECURSIVE AddPendingAlerts(_, _, _)
AddPendingAlerts(st, newly_left, n) ==
    IF n > Len(newly_left) THEN st
    ELSE AddPendingAlerts(AddPendingAlert(st, newly_left[n]), newly_left, n + 1)

\* does the pass make the call that fails
Raises(fails, logs, active_persons, newly_left, camera_id) ==
    \/ fails = "get_active_presences" /\ Len(active_persons) > 0
    \/ /\ fails = "log_entry"
       /\ \E n \in 1 .. Len(active_persons) : IsNewEntry(logs, active_persons[n].k, camera_id)
    \/ fails = "log_exit" /\ Len(newly_left) > 0

\* the body of the loop for camera_id, the detector returning detections: the
\* tracking update, the entries, then the exits and the pending alerts of the
\* persons who left, up to the call that raises; last_op keeps how the pass ended
PipelinePass(camera_id, detections, fails) ==
    /\ lock = "free"
    /\ \E rows \in ArgsortChoices(DictGet(get_tracker(trackers, camera_id), camera_id),
                                  detections, camera_id) :
       \E tr \in {Recognize(update(DictGet(get_tracker(trackers, camera_id), camera_id),
                                   detections, camera_id, now, rows),
                            face_recognition, "frame", [k \in ObjectIds |-> "None"])} :
       \E trs \in {DictSet(get_tracker(trackers, camera_id), camera_id, tr)} :
       \E active_persons \in {TrackingManager_get_active_persons(trs, camera_id)} :
       \E newly_left \in {get_newly_left_persons(trs, camera_id)} :
       \E raised \in {Raises(fails, presence_logs, active_persons, newly_left, camera_id)} :
       \E st \in {IF raised THEN [alerts |-> alerts, pending_alerts |-> pending_alerts]
                  ELSE AddPendingAlerts([alerts |-> alerts,
                                         pending_alerts |-> pending_alerts],
                                        newly_left, 1)} :
          /\ \A k \in DictKeys(tr.objects) : k \in ObjectIds
          /\ TotalTracked(trs) <= Cardinality(ObjectIds)
          /\ trackers' = trs
          /\ just_left' = [just_left EXCEPT ![camera_id] =
                              Departed(DictGet(get_tracker(trackers, camera_id),
                                               camera_id).objects, tr.objects)]
          /\ presence_logs' =
                IF raised /\ fails \in {"get_active_presences", "log_entry"}
                THEN presence_logs
                ELSE IF raised
                THEN LogEntries(presence_logs, active_persons, 1, camera_id)
                ELSE LogExits(LogEntries(presence_logs, active_persons, 1, camera_id),
                              newly_left, 1, camera_id)
          /\ alerts' = st.alerts
          /\ pending_alerts' = st.pending_alerts
          /\ last_op' = <<"pass", camera_id, IF raised THEN fails ELSE "completed">>
    /\ UNCHANGED <<now, timeout_minutes, alert_callbacks, lock, ev, absence_alerts,
                   create_alert_calls, cb_calls, trackVars, face_recognition, camVars,
                   processing_active, pipeline, running, monitor, req>>

InitPipeline ==
    /\ now = 0
    /\ InitAlertManager(0)
    /\ InitTracker
    /\ InitManager(TRUE)
    /\ InitCameraStream
    /\ InitSystem

NextPipeline ==
    \/ TickManager
    \/ \E camera_id \in Cameras : \E detections \in ManagerDetectionLists :
       \E fails \in Failures : PipelinePass(camera_id, detections, fails)

SpecPipeline == InitPipeline /\ [][NextPipeline]_vars

----------------------------------------------------------------------------
(* app/main.py: the loop of process_cameras over several cameras that are all
   active and always have a frame.  frame_skip_counter is one local of the loop,
   shared by the cameras.  The floor is empty: detect returns no detection, no
   person is active and none left, so no Database or scheduler call is made.
   pipeline[1] is the thread: active_cameras is what get_active_cameras()
   returns, camera the position of the `for` in it. *)

\* the registries: the cameras in the order they were added
Registries == {<<"cam1">>, <<"cam1", "cam2">>, <<"cam2", "cam1">>,
               <<"cam1", "cam2", "cam3">>}

notServe == <<now, alertState, trackVars, face_recognition, just_left, camVars,
              processing_active, running, monitor, req, presence_logs>>

\* `while processing_active:` and `active_cameras = camera_manager.get_active_cameras()`
ServeTest ==
    /\ pipeline[1].pc = "test"
    /\ pipeline' = [pipeline EXCEPT ![1].pc = IF processing_active THEN "frame" ELSE "done",
                                    ![1].camera = 1]
    /\ last_op' = <<"none">>
    /\ UNCHANGED <<trackers, notServe>>

\* the head of the body for the next camera: the frame is there, the counter
\* decides whether it is skipped
ServeGetFrame ==
    /\ pipeline[1].pc = "frame"
    /\ pipeline[1].camera <= Len(pipeline[1].active_cameras)
    /\ pipeline' = [pipeline EXCEPT ![1] =
          [@ EXCEPT !.frame_skip_counter = (@ + 1) % FRAME_SKIP,
                    !.pc = IF (pipeline[1].frame_skip_counter + 1) % FRAME_SKIP # 0
                           THEN "frame" ELSE "update",
                    !.camera = IF (pipeline[1].frame_skip_counter + 1) % FRAME_SKIP # 0
                               THEN @ + 1 ELSE @]]
    /\ last_op' = <<"none">>
    /\ UNCHANGED <<trackers, notServe>>

\* detection and tracking_manager.update for the camera, and the rest of the body;
\* last_op keeps the camera that was served
ServeUpdate ==
    /\ pipeline[1].pc = "update"
    /\ \E camera_id \in {pipeline[1].active_cameras[pipeline[1].camera]} :
          /\ trackers' = DictSet(get_tracker(trackers, camera_id), camera_id,
                                 update(DictGet(get_tracker(trackers, camera_id), camera_id),
                                        <<>>, camera_id, now, <<>>))
          /\ last_op' = <<"served", camera_id>>
    /\ pipeline' = [pipeline EXCEPT ![1].pc = "frame", ![1].camera = @ + 1]
    /\ UNCHANGED notServe

\* the `for` is over: `time.sleep(0.01)`, and back to the `while`
ServeSleep ==
    /\ pipeline[1].pc = "frame"
    /\ pipeline[1].camera > Len(pipeline[1].active_cameras)
    /\ pipeline' = [pipeline EXCEPT ![1].pc = "test"]
    /\ last_op' = <<"none">>
    /\ UNCHANGED <<trackers, notServe>>

ServeStep ==
    \/ ServeTest
    \/ ServeGetFrame
    \/ ServeUpdate
    \/ ServeSleep

\* start_system has run: the loop is at its `while`, with an empty registry of
\* trackers
InitServe ==
    /\ now = 0
    /\ InitAlertManager(0)
    /\ InitTracker
    /\ InitManager(TRUE)
    /\ InitCameraStream
    /\ processing_active = TRUE
    /\ \E registry \in Registries :
          pipeline = [p \in Pipelines |->
                         IF p = 1
                         THEN [pc |-> "test", frame_skip_counter |-> 0,
                               active_cameras |-> registry, camera |-> 1]
                         ELSE [pc |-> "unborn", frame_skip_counter |-> 0]]
    /\ running = TRUE
    /\ monitor = [m \in Monitors |-> [pc |-> "unborn"]]
    /\ req = [h \in Requests |-> "idle"]
    /\ presence_logs = <<>>

NextServe ==
    \/ TickManager
    \/ ServeStep

\* the loop gets to run
SpecServe == InitServe /\ [][NextServe]_vars /\ WF_vars(ServeStep)

----------------------------------------------------------------------------
(* app/tracking_system.py: TrackingManager.get_tracker statement by statement,
   called by two threads: h1 is the pipeline thread, inside
   TrackingManager.update; h2 is a stream reader, inside
   TrackingManager.get_active_persons(camera_id) (generate_frames).  A tracker
   carries the identity of its instance in the field id: the thread that
   constructed it and the camera.  req[h] is the frame of the call: camera_id its
   argument, tracker the instance get_tracker returned.  last_op keeps the
   instances get_tracker has returned and the instances that were taken out of
   the dict after they had registered persons. *)

notRace == <<now, alertState, trackVars, face_recognition, camVars,
             processing_active, pipeline, running, monitor, presence_logs>>

\* what the detector hands to the pipeline thread: nobody, or one person who
\* stands still
RaceDetectionLists ==
    {detections \in ManagerDetectionLists :
        /\ Len(detections) <= 1
        /\ \A n \in 1 .. Len(detections) : detections[n].center = <<125, 150>>}

\* the thread enters update or get_active_persons
RaceCall(h, camera_id) ==
    /\ req[h].pc = "idle"
    /\ req' = [req EXCEPT ![h] = [pc |-> "test", camera_id |-> camera_id, tracker |-> "None"]]
    /\ UNCHANGED <<trackers, just_left, last_op, notRace>>

\* `if camera_id not in self.trackers:`
GetTrackerTest(h) ==
    /\ req[h].pc = "test"
    /\ req' = [req EXCEPT ![h].pc = IF DictHas(trackers, req[h].camera_id)
                                     THEN "return" ELSE "create"]
    /\ UNCHANGED <<trackers, just_left, last_op, notRace>>

\* `self.trackers[camera_id] = CentroidTracker(...)`
GetTrackerCreate(h) ==
    /\ req[h].pc = "create"
    /\ trackers' = DictSet(trackers, req[h].camera_id,
                           [objects |-> NewTracker.objects,
                            next_object_id |-> NewTracker.next_object_id,
                            id |-> <<h, req[h].camera_id>>])
    /\ last_op' = [last_op EXCEPT ![3] =
          IF /\ DictHas(trackers, req[h].camera_id)
             /\ DictGet(trackers, req[h].camera_id).objects # <<>>
          THEN @ \cup {DictGet(trackers, req[h].camera_id).id}
          ELSE @]
    /\ req' = [req EXCEPT ![h].pc = "return"]
    /\ UNCHANGED <<just_left, notRace>>

\* `return self.trackers[camera_id]`
GetTrackerReturn(h) ==
    /\ req[h].pc = "return"
    /\ req' = [req EXCEPT ![h].pc = "call",
                          ![h].tracker = DictGet(trackers, req[h].camera_id).id]
    /\ last_op' = [last_op EXCEPT ![2] = @ \cup {DictGet(trackers, req[h].camera_id).id}]
    /\ UNCHANGED <<trackers, just_left, notRace>>

\* the rest of TrackingManager.update in the pipeline thread: tracker.update and
\* the face recognition, on the instance get_tracker returned.  If this instance
\* is no more the one of the dict, the dict does not see the update.
RaceUpdate(h, detections) ==
    /\ h = "h1"
    /\ req[h].pc = "call"
    /\ IF DictGet(trackers, req[h].camera_id).id = req[h].tracker
       THEN \E rows \in ArgsortChoices(DictGet(trackers, req[h].camera_id), detections,
                                       req[h].camera_id) :
            \E tr \in {Recognize(update(DictGet(trackers, req[h].camera_id), detections,
                                        req[h].camera_id, now, rows),
                                 face_recognition, "frame", [k \in ObjectIds |-> "None"])} :
               /\ \A k \in DictKeys(tr.objects) : k \in ObjectIds
               /\ trackers' = DictSet(trackers, req[h].camera_id,
                                      [objects |-> tr.objects,
                                       next_object_id |-> tr.next_object_id,
                                       id |-> req[h].tracker])
               /\ TotalTracked(trackers') <= Cardinality(ObjectIds)
               /\ just_left' = [just_left EXCEPT ![req[h].camera_id] =
                                   Departed(DictGet(trackers, req[h].camera_id).objects,
                                            tr.objects)]
       ELSE UNCHANGED <<trackers, just_left>>
    /\ req' = [req EXCEPT ![h] = [pc |-> "idle", camera_id |-> "None", tracker |-> "None"]]
    /\ UNCHANGED <<last_op, notRace>>

\* the rest of TrackingManager.get_active_persons in the stream reader:
\* tracker.get_active_persons() reads the instance
RaceGetActivePersons(h) ==
    /\ h = "h2"
    /\ req[h].pc = "call"
    /\ req' = [req EXCEPT ![h] = [pc |-> "idle", camera_id |-> "None", tracker |-> "None"]]
    /\ UNCHANGED <<trackers, just_left, last_op, notRace>>

\* init_system has built the TrackingManager without a face recognition engine;
\* no tracker yet, both threads out of the manager
InitRace ==
    /\ now = 0
    /\ timeout_minutes = ABSENCE_TIMEOUT_MINUTES
    /\ alerts = [o \in Slots |-> NoAlert]
    /\ pending_alerts = <<>>
    /\ alert_callbacks = <<>>
    /\ lock = "free"
    /\ ev = [e \in Evaluators |-> IdleEvaluator]
    /\ absence_alerts = <<>>
    /\ create_alert_calls = [tid \in TrackingIds |-> 0]
    /\ cb_calls = [tid \in TrackingIds |-> <<>>]
    /\ last_op = <<"get_tracker", {}, {}>>
    /\ InitTracker
    /\ InitManager(FALSE)
    /\ InitCameraStream
    /\ processing_active = TRUE
    /\ pipeline = [p \in Pipelines |-> [pc |-> "unborn", frame_skip_counter |-> 0]]
    /\ running = TRUE
    /\ monitor = [m \in Monitors |-> [pc |-> "unborn"]]
    /\ req = [h \in Requests |-> [pc |-> "idle", camera_id |-> "None", tracker |-> "None"]]
    /\ presence_logs = <<>>

NextRace ==
    \/ \E h \in Requests, c \in Cameras : RaceCall(h, c)
    \/ \E h \in Requests : GetTrackerTest(h)
    \/ \E h \in Requests : GetTrackerCreate(h)
    \/ \E h \in Requests : GetTrackerReturn(h)
    \/ \E h \in Requests, detections \in RaceDetectionLists : RaceUpdate(h, detections)
    \/ \E h \in Requests : RaceGetActivePersons(h)

SpecRace == InitRace /\ [][NextRace]_vars

----------------------------------------------------------------------------
(* app/camera_manager.py: the started stream when its source fails for good.
   From then on capture.isOpened() is false (or every capture.read() fails,
   which takes the same path of _update: a sleep and `continue`).  Nobody calls
   stop(). *)

\* the source goes away: the cable is pulled, the RTSP server ends
SourceFails ==
    /\ capture = "open"
    /\ capture' = "closed"
    /\ last_op' = <<"none">>
    /\ UNCHANGED <<stopped, info_active, stopper, notStopper>>

NextFailure ==
    \/ StreamStep
    \/ SourceFails
    \/ \E r \in Readers : ReadCheckEmpty(r)
    \/ \E r \in Readers : ReadGet(r)
    \/ \E r \in Readers : ReadLast(r)

\* the thread of _update gets to run
SpecFailure ==
    /\ InitCamera
    /\ [][NextFailure]_vars
    /\ WF_vars(StreamStep)

----------------------------------------------------------------------------
(* app/camera_manager.py: the stream with its acquisition loop and one consumer *)

\* the stream with one consumer: only r1 calls read()
NextConsumer ==
    \/ StreamStep
    \/ ReadCheckEmpty("r1")
    \/ ReadGet("r1")
    \/ ReadLast("r1")

SpecConsumer == InitCamera /\ [][NextConsumer]_vars

----------------------------------------------------------------------------
(* app/main.py and app/camera_manager.py: the running pipeline and the route
   /api/cameras/<camera_id>/remove for the registered camera cam1.  The route
   calls CameraManager.remove_camera only: the stream's stop() and the `del` of
   the camera, which is done when stop() has returned.  A pass of the pipeline
   takes cam1 from get_active_cameras() and needs its frame. *)

\* process_cameras: the pass for cam1, when get_active_cameras() lists it and
\* get_frame has a frame; the detector sees nobody or one person who stands still
RemovePass(detections) ==
    /\ processing_active
    /\ pipeline[1].pc = "test"
    /\ is_active
    /\ get_frame # 0
    /\ PipelinePass("cam1", detections, "none")

\* process_cameras: the pass that finds no active camera, or no frame yet, goes
\* to `time.sleep(0.01)`, and comes back to the `while`
IdlePass ==
    /\ processing_active
    /\ \/ /\ pipeline[1].pc = "test"
          /\ ~is_active \/ get_frame = 0
          /\ pipeline' = [pipeline EXCEPT ![1].pc = "sleep"]
       \/ /\ pipeline[1].pc = "sleep"
          /\ pipeline' = [pipeline EXCEPT ![1].pc = "test"]
    /\ last_op' = <<"none">>
    /\ UNCHANGED <<processing_active, running, monitor, req, trackers, notSystem>>

\* remove_camera of the route, inside CameraManager.remove_camera
RemoveStep ==
    \/ StopBegin
    \/ StopJoin
    \/ StopRelease
    \/ StopReturn

PassStep ==
    \/ \E detections \in RaceDetectionLists : RemovePass(detections)
    \/ IdlePass

\* start_system has run and the stream delivers
InitRemove ==
    /\ now = 0
    /\ InitAlertManager(0)
    /\ InitTracker
    /\ InitManager(FALSE)
    /\ InitCameraStream
    /\ processing_active = TRUE
    /\ pipeline = [p \in Pipelines |->
                      [pc |-> IF p = 1 THEN "test" ELSE "unborn", frame_skip_counter |-> 0]]
    /\ running = TRUE
    /\ monitor = [m \in Monitors |-> [pc |-> "unborn"]]
    /\ req = [h \in Requests |-> "idle"]
    /\ presence_logs = <<>>

NextRemove ==
    \/ TickManager
    \/ AcquisitionStep
    \/ PassStep
    \/ RemoveStep

\* the pipeline, the acquisition thread and the request get to run
SpecRemove ==
    /\ InitRemove
    /\ [][NextRemove]_vars
    /\ WF_vars(PassStep)
    /\ WF_vars(AcquisitionStep)
    /\ WF_vars(RemoveStep)

----------------------------------------------------------------------------
(* The scheduler with its evaluator threads, the pipeline/API callers, the clock *)

InitAlert ==
    /\ now = 0
    /\ \E arg \in TimeoutArgs : InitAlertManager(arg)
    /\ InitTracker
    /\ InitManager(FALSE)
    /\ InitCameraStream
    /\ InitSystem

NextAlert ==
    \/ TickAlert
    \/ \E kind \in CallbackKinds : register_callback(kind)
    \/ \E person \in Persons(now) : add_pending_alert(person)
    \/ \E tid \in TrackingIds : cancel_alert(tid)
    \/ \E tid \in TrackingIds : acknowledge_alert(tid)
    \/ \E e \in Evaluators : CheckAlertsScan(e)
    \/ \E e \in Evaluators : TriggerAlert(e)
    \/ \E e \in Evaluators : InvokeCallback(e)
    \/ \E e \in Evaluators : TriggerDone(e)
    \/ \E e \in Evaluators : CheckAlertsEnd(e)

SpecAlert == InitAlert /\ [][NextAlert]_vars

----------------------------------------------------------------------------
(* The scheduler with an observer that calls back into it: the callback
   acknowledges the alert it is told about, alert_manager.acknowledge_alert(
   alert.tracking_id).  threading.Lock is not reentrant: acquire() blocks while
   the lock is held, whoever holds it. *)

\* _trigger_alert: the iteration of `for callback in self.alert_callbacks` on such
\* a callback; acknowledge_alert enters `with self.lock`, and goes on if it gets
\* the lock
InvokeReentrantCallback(e) ==
    /\ ev[e].pc = "callbacks"
    /\ ev[e].c <= Len(alert_callbacks)
    /\ alert_callbacks[ev[e].c] = "reenters"
    /\ cb_calls' = [cb_calls EXCEPT ![alerts[CurrentAlert(e)].tracking_id] =
                       Append(@, ev[e].c)]
    /\ IF lock = "free"
       THEN /\ alerts' = IF DictHas(pending_alerts, alerts[CurrentAlert(e)].tracking_id)
                         THEN [alerts EXCEPT
                                 ![DictGet(pending_alerts,
                                           alerts[CurrentAlert(e)].tracking_id)].acknowledged
                                     = TRUE]
                         ELSE alerts
            /\ ev' = [ev EXCEPT ![e] = [@ EXCEPT !.c = @ + 1]]
       ELSE /\ ev' = [ev EXCEPT ![e] = [@ EXCEPT !.pc = "acquire"]]
            /\ UNCHANGED alerts
    /\ last_op' = <<"none">>
    /\ UNCHANGED <<now, timeout_minutes, pending_alerts, alert_callbacks, lock,
                   absence_alerts, create_alert_calls, trackVars, mgrVars, camVars, sysVars>>

InitReentry ==
    /\ now = 0
    /\ InitAlertManager(0)
    /\ InitTracker
    /\ InitManager(FALSE)
    /\ InitCameraStream
    /\ InitSystem

NextReentry ==
    \/ TickAlert
    \/ \E kind \in {"ok", "reenters"} : register_callback(kind)
    \/ \E person \in Persons(now) : add_pending_alert(person)
    \/ \E e \in Evaluators : CheckAlertsScan(e)
    \/ \E e \in Evaluators : TriggerAlert(e)
    \/ \E e \in Evaluators : InvokeCallback(e)
    \/ \E e \in Evaluators : InvokeReentrantCallback(e)
    \/ \E e \in Evaluators : TriggerDone(e)
    \/ \E e \in Evaluators : CheckAlertsEnd(e)

SpecReentry == InitReentry /\ [][NextReentry]_vars

----------------------------------------------------------------------------
(* The scheduler while its evaluator runs: the monitor thread goes through its
   cycles for ever, _check_alerts then time.sleep, whatever a cycle met; the
   callers and the clock are free to act or not.  The observers were registered
   before the start, as init_system does: one that raises, then one that does
   not. *)

InitEvaluator ==
    /\ now = 0
    /\ timeout_minutes = ABSENCE_TIMEOUT_MINUTES
    /\ alerts = [o \in Slots |-> NoAlert]
    /\ pending_alerts = <<>>
    /\ alert_callbacks = <<"raises", "ok">>
    /\ lock = "free"
    /\ ev = [e \in Evaluators |-> IdleEvaluator]
    /\ absence_alerts = <<>>
    /\ create_alert_calls = [tid \in TrackingIds |-> 0]
    /\ cb_calls = [tid \in TrackingIds |-> <<>>]
    /\ last_op = <<"none">>
    /\ InitTracker
    /\ InitManager(FALSE)
    /\ InitCameraStream
    /\ InitSystem

\* the steps of the monitor thread e
EvaluatorStep(e) ==
    \/ CheckAlertsScan(e)
    \/ TriggerAlert(e)
    \/ InvokeCallback(e)
    \/ TriggerDone(e)
    \/ CheckAlertsEnd(e)

NextEvaluator ==
    \/ TickAlert
    \/ \E person \in Persons(now) : add_pending_alert(person)
    \/ \E tid \in TrackingIds : cancel_alert(tid)
    \/ \E tid \in TrackingIds : acknowledge_alert(tid)
    \/ EvaluatorStep("ev1")

SpecEvaluator ==
    /\ InitEvaluator
    /\ [][NextEvaluator]_vars
    /\ WF_vars(EvaluatorStep("ev1"))

----------------------------------------------------------------------------
(* Properties of the scheduler *)

\* AlertManager.get_pending_alerts, by tracking id
AlertOf(tid) == alerts[DictGet(pending_alerts, tid)]

TriggeredInPending(tid) == DictHas(pending_alerts, tid) /\ AlertOf(tid).triggered

UpTo(n) == [k \in 1 .. n |-> k]

RowsOf(tid) == {n \in 1 .. Len(absence_alerts) : absence_alerts[n].tracking_id = tid}

\* the step is the scheduler API call op on tracking id tid
IsCall(op, tid) == last_op'[1] = op /\ last_op'[2] = tid

\* thread e leaves the callback loop of _trigger_alert
LeavesCallbacks(e) == ev[e].pc = "callbacks" /\ ev'[e].pc # "callbacks"

\* C1: an alert whose fire time has passed is triggered exactly once, whatever the
\* number of evaluator cycles and threads: at most one create_alert call and at most
\* one invocation of each callback ever happen per tracking id, the call has
\* happened exactly when the alert sits in the pending set with triggered = True,
\* and when _trigger_alert returns every registered callback has been invoked once.
C1_TriggeredExactlyOnce ==
    /\ [](\A tid \in TrackingIds :
            /\ create_alert_calls[tid] <= 1
            /\ Cardinality(RowsOf(tid)) <= create_alert_calls[tid]
            /\ cb_calls[tid] = UpTo(Len(cb_calls[tid]))
            /\ Len(cb_calls[tid]) <= Len(alert_callbacks)
            /\ (create_alert_calls[tid] = 1 <=> TriggeredInPending(tid)))
    /\ [][\A e \in Evaluators :
            /\ LeavesCallbacks(e) =>
                  cb_calls'[alerts[CurrentAlert(e)].tracking_id] =
                      UpTo(Len(alert_callbacks))
            /\ (ev[e].pc = "idle" /\ ev'[e].pc # "idle") =>
                  \A tid \in DictKeys(pending_alerts) :
                      (now >= AlertOf(tid).alert_time /\ create_alert_calls[tid] = 0)
                          => DictGet(pending_alerts, tid) \in Range(ev'[e].alerts_to_trigger)
            /\ (ev[e].pc # "idle" /\ ev'[e].pc = "idle") =>
                  \A a \in Range(ev[e].alerts_to_trigger) :
                      /\ alerts[a] # NoAlert
                      /\ TriggeredInPending(alerts[a].tracking_id)
                      /\ create_alert_calls[alerts[a].tracking_id] = 1]_vars

C1_Witness ==
    \E tid \in TrackingIds, e \in Evaluators :
        /\ TriggeredInPending(tid)
        /\ now >= AlertOf(tid).alert_time
        /\ Len(alert_callbacks) = MaxCallbacks
        /\ cb_calls[tid] = UpTo(MaxCallbacks)
        /\ ev[e].pc = "trigger"
        /\ ev[e].alerts_to_trigger = <<>>

\* C2: cancel_alert and an evaluator cycle never overlap on an alert: every Alert
\* object that exists is in the pending set (none that cancel_alert removed is
\* held, triggered or about to be triggered by an evaluator), every persistence
\* call and callback invocation belongs to an alert that is in the pending set and
\* triggered, and cancel_alert on a triggered alert changes nothing.
C2_CancelAtomic ==
    /\ [](/\ \A o \in Slots :
                alerts[o] # NoAlert => o \in Range(DictValues(pending_alerts))
          /\ \A tid \in TrackingIds :
                (create_alert_calls[tid] > 0 \/ cb_calls[tid] # <<>>)
                    => TriggeredInPending(tid))
    /\ [][\A tid \in TrackingIds :
            (IsCall("cancel_alert", tid) /\ TriggeredInPending(tid)) =>
                /\ alerts' = alerts
                /\ pending_alerts' = pending_alerts]_vars

C2_Witness ==
    \E tid \in TrackingIds :
        /\ last_op = <<"cancel_alert", tid, "kept">>
        /\ TriggeredInPending(tid)
        /\ create_alert_calls[tid] = 1

\* C3: cancel_alert on an alert that has not been triggered removes it, so that no
\* alert is pending for the tracking id, and while none is pending no evaluator
\* cycle produces a persistence call or a callback invocation for it.
C3_CancelBeforeTrigger ==
    [][\A tid \in TrackingIds :
        /\ (IsCall("cancel_alert", tid) /\ DictHas(pending_alerts, tid)
                /\ ~AlertOf(tid).triggered) =>
              /\ ~DictHas(pending_alerts', tid)
              /\ alerts'[DictGet(pending_alerts, tid)] = NoAlert
        /\ (~DictHas(pending_alerts, tid) /\ ~IsCall("add_pending_alert", tid)) =>
              /\ ~DictHas(pending_alerts', tid)
              /\ create_alert_calls'[tid] = create_alert_calls[tid]
              /\ cb_calls'[tid] = cb_calls[tid]
              /\ RowsOf(tid)' = RowsOf(tid)]_vars

C3_Witness ==
    \E tid \in TrackingIds :
        /\ last_op = <<"cancel_alert", tid, "removed">>
        /\ ~DictHas(pending_alerts, tid)
        /\ create_alert_calls[tid] = 0
        /\ now >= timeout_minutes

\* C4: with the 20 minute timeout an alert for a person last seen at T fires at
\* T + 20: a scan before T + 20 selects nothing for it, a scan at or after T + 20
\* selects it (once) unless it is triggered already, the cycle triggers what the
\* scan selected, and no alert is triggered or recorded before T + 20.
C4_FiresAtTimeout ==
    /\ [](/\ timeout_minutes = 20
          /\ \A o \in Slots : alerts[o] # NoAlert =>
                /\ alerts[o].alert_time = alerts[o].left_at + 20
                /\ alerts[o].triggered => now >= alerts[o].left_at + 20
          /\ \A n \in 1 .. Len(absence_alerts) :
                absence_alerts[n].alert_triggered_at >= absence_alerts[n].left_at + 20)
    /\ [][\A e \in Evaluators :
            /\ (ev[e].pc = "idle" /\ ev'[e].pc = "trigger") =>
                  /\ \A tid \in DictKeys(pending_alerts) :
                        (\E n \in 1 .. Len(ev'[e].alerts_to_trigger) :
                            ev'[e].alerts_to_trigger[n] = DictGet(pending_alerts, tid))
                        <=> (~AlertOf(tid).triggered /\ now >= AlertOf(tid).left_at + 20)
                  /\ \A m, n \in 1 .. Len(ev'[e].alerts_to_trigger) :
                        m # n => ev'[e].alerts_to_trigger[m] # ev'[e].alerts_to_trigger[n]
            /\ (ev[e].pc = "trigger" /\ ev'[e].pc = "idle") =>
                  \A n \in 1 .. Len(ev[e].alerts_to_trigger) :
                      /\ alerts[ev[e].alerts_to_trigger[n]].triggered
                      /\ create_alert_calls[alerts[ev[e].alerts_to_trigger[n]].tracking_id] = 1
         ]_vars

C4_Witness ==
    \E n \in 1 .. Len(absence_alerts) :
        /\ absence_alerts[n].timeout_minutes = 20
        /\ absence_alerts[n].alert_triggered_at = absence_alerts[n].left_at + 21
        /\ create_alert_calls[absence_alerts[n].tracking_id] = 1

\* C5: add_pending_alert for a tracking id that has an alert in the pending set
\* changes neither the set nor any alert, and the pending set holds at most one
\* alert per tracking id, filed under its own tracking id.
C5_AddIdempotent ==
    /\ [](/\ \A m, n \in 1 .. Len(pending_alerts) :
                m # n => /\ pending_alerts[m].k # pending_alerts[n].k
                         /\ pending_alerts[m].v # pending_alerts[n].v
          /\ \A n \in 1 .. Len(pending_alerts) :
                alerts[pending_alerts[n].v].tracking_id = pending_alerts[n].k)
    /\ [][\A tid \in TrackingIds :
            (IsCall("add_pending_alert", tid) /\ DictHas(pending_alerts, tid)) =>
                /\ pending_alerts' = pending_alerts
                /\ alerts' = alerts]_vars

C5_Witness ==
    \E tid \in TrackingIds :
        /\ last_op = <<"add_pending_alert", tid, "exists">>
        /\ TriggeredInPending(tid)
        /\ AlertOf(tid).acknowledged

\* C6 as claimed: in every reachable state acknowledged = True implies
\* triggered = True.
C6_AckImpliesTriggered ==
    \A o \in Slots : (alerts[o] # NoAlert /\ alerts[o].acknowledged) => alerts[o].triggered

\* C6 amended: acknowledge_alert sets acknowledged = True on the alert that is in
\* the pending set for the tracking id, triggered or not, and changes nothing else;
\* for a tracking id with no alert in the pending set it changes nothing.
C6_AckSetsFlagOnly ==
    [][\A tid \in TrackingIds :
        IsCall("acknowledge_alert", tid) =>
            /\ pending_alerts' = pending_alerts
            /\ alerts' = IF DictHas(pending_alerts, tid)
                         THEN [alerts EXCEPT
                                 ![DictGet(pending_alerts, tid)].acknowledged = TRUE]
                         ELSE alerts]_vars

C6_Witness ==
    \E tid \in TrackingIds :
        /\ last_op = <<"acknowledge_alert", tid, "set">>
        /\ DictHas(pending_alerts, tid)
        /\ AlertOf(tid).acknowledged
        /\ ~AlertOf(tid).triggered

\* C7: after acknowledge_alert for a tracking id whose alert add_pending_alert put
\* in the pending set, the alert is still in the pending set and acknowledged.
C7_AckKeepsAlertPending ==
    [][\A tid \in TrackingIds :
        (IsCall("acknowledge_alert", tid) /\ DictHas(pending_alerts, tid)) =>
            /\ DictHas(pending_alerts', tid)
            /\ alerts'[DictGet(pending_alerts', tid)].acknowledged]_vars

C7_Witness ==
    \E tid \in TrackingIds :
        /\ now = 0
        /\ DictHas(pending_alerts, tid)
        /\ AlertOf(tid).acknowledged
        /\ create_alert_calls[tid] = 0

\* C8: a callback that raises is isolated: the callback loop goes on to the next
\* callback with the lock still held, the loop is left only by _trigger_alert
\* returning to the trigger loop (nothing propagates), with every registered
\* callback invoked once and the alert in the pending set with triggered = True.
C8_CallbackIsolated ==
    [][\A e \in Evaluators :
        /\ (ev[e].pc = "callbacks" /\ ev[e].c <= Len(alert_callbacks)
                /\ ev'[e] # ev[e]) =>
              /\ ev'[e] = [ev[e] EXCEPT !.c = @ + 1]
              /\ lock' = lock
        /\ LeavesCallbacks(e) =>
              LET a == CurrentAlert(e)
                  tid == alerts[a].tracking_id
              IN  /\ ev'[e] = [ev[e] EXCEPT !.pc = "trigger", !.j = @ + 1, !.c = 0]
                  /\ lock' = lock
                  /\ cb_calls'[tid] = UpTo(Len(alert_callbacks))
                  /\ DictHas(pending_alerts', tid)
                  /\ DictGet(pending_alerts', tid) = a
                  /\ alerts'[a].triggered]_vars

C8_Witness ==
    \E tid \in TrackingIds, e \in Evaluators :
        /\ alert_callbacks = <<"raises", "ok">>
        /\ cb_calls[tid] = <<1, 2>>
        /\ TriggeredInPending(tid)
        /\ ev[e].pc = "trigger"
        /\ ev[e].j = 2

\* C9: when database.create_alert raises, the alert is marked triggered all the
\* same and _trigger_alert goes on to the callbacks with the lock held; the cycle
\* ends only with every alert it selected triggered and notified, and releases the
\* lock, so that later cycles can run.
C9_PersistenceFailureIsolated ==
    /\ [](\A e \in Evaluators : (lock = e) <=> (ev[e].pc # "idle"))
    /\ [][\A e \in Evaluators :
            /\ (ev[e].pc = "trigger" /\ ev[e].j <= Len(ev[e].alerts_to_trigger)
                    /\ ev'[e] # ev[e]) =>
                  /\ alerts'[CurrentAlert(e)].triggered
                  /\ ev'[e] = [ev[e] EXCEPT !.pc = "callbacks", !.c = 1]
                  /\ lock' = lock
            /\ (ev[e].pc # "idle" /\ ev'[e].pc = "idle") =>
                  /\ lock' = "free"
                  /\ \A n \in 1 .. Len(ev[e].alerts_to_trigger) :
                        /\ alerts[ev[e].alerts_to_trigger[n]].triggered
                        /\ Len(cb_calls[alerts[ev[e].alerts_to_trigger[n]].tracking_id])
                               >= ev[e].c
         ]_vars

C9_Witness ==
    \E t1, t2 \in TrackingIds, e \in Evaluators :
        /\ TriggeredInPending(t1)
        /\ RowsOf(t1) = {}
        /\ Len(alert_callbacks) > 0
        /\ cb_calls[t1] = UpTo(Len(alert_callbacks))
        /\ DictGet(pending_alerts, t1) \notin Range(ev[e].alerts_to_trigger)
        /\ ev[e].pc = "callbacks"
        /\ alerts[CurrentAlert(e)].tracking_id = t2
        /\ RowsOf(t2) # {}

----------------------------------------------------------------------------
(* Properties of the tracker *)

\* the step is an update of the camera with an empty detection list that continues
\* a run of fewer than max_disappeared + 1 of them
IsEmptyUpdate(camera_id) == empty_run'[camera_id] = empty_run[camera_id] + 1

\* C10: N > max_disappeared consecutive empty detection lists make every active
\* person of the camera inactive, each exactly once: an empty update counts one
\* more missed frame for each active person of the camera, the person stays active
\* up to max_disappeared missed frames and becomes inactive on the update that
\* makes them max_disappeared + 1, an inactive person never becomes active again,
\* and after more than max_disappeared consecutive empty updates
\* get_active_persons(camera) is empty.
C10_EmptyUpdatesDepartOnce ==
    /\ [](\A c \in Cameras :
            /\ empty_run[c] > max_disappeared => get_active_persons(objects, c) = <<>>
            /\ \A n \in 1 .. Len(get_active_persons(objects, c)) :
                  get_active_persons(objects, c)[n].v.disappeared_frames >= empty_run[c])
    /\ [][/\ Len(objects') >= Len(objects)
          /\ \A i \in 1 .. Len(objects) :
                /\ objects'[i].k = objects[i].k
                /\ ~objects[i].v.is_active => ~objects'[i].v.is_active
                /\ (objects[i].v.is_active /\ IsEmptyUpdate(objects[i].v.camera_id)) =>
                      /\ objects'[i].v.disappeared_frames =
                             objects[i].v.disappeared_frames + 1
                      /\ objects'[i].v.is_active <=>
                             (objects'[i].v.disappeared_frames <= max_disappeared)
         ]_vars

C10_Witness ==
    \E c \in Cameras :
        /\ empty_run[c] = max_disappeared + 1
        /\ Len(objects) = 2
        /\ \A i \in 1 .. Len(objects) :
              /\ objects[i].v.camera_id = c
              /\ ~objects[i].v.is_active
              /\ objects[i].v.disappeared_frames = max_disappeared + 1

----------------------------------------------------------------------------
(* Properties of one call of update *)

\* the step is update(detections, camera_id) with a frame that is not empty
IsUpdate(camera_id) ==
    /\ last_op = <<"none">>
    /\ last_op'[1] = "update"
    /\ last_op'[2] = camera_id
    /\ Len(last_op'[3]) > 0

\* the squared distance from person i of the dict to detection k of the frame
PairDist(i, k) == SqDist(objects[i].v.centroid, last_op'[3][k].center)

IsActiveOn(i, camera_id) == objects[i].v.is_active /\ objects[i].v.camera_id = camera_id

\* the detection of the frame nearest to person i, the first of them if several
NearestDetection(i) ==
    CHOOSE k \in 1 .. Len(last_op'[3]) :
        /\ \A b \in 1 .. Len(last_op'[3]) : PairDist(i, k) <= PairDist(i, b)
        /\ \A b \in 1 .. Len(last_op'[3]) : PairDist(i, b) = PairDist(i, k) => k <= b

\* person i takes over detection k in the step
TakesOver(i, k) ==
    /\ objects'[i].k = objects[i].k
    /\ objects'[i].v.tracking_id = objects[i].v.tracking_id
    /\ objects'[i].v.is_active
    /\ objects'[i].v.disappeared_frames = 0
    /\ objects'[i].v.centroid = last_op'[3][k].center
    /\ objects'[i].v.bbox = last_op'[3][k].bbox
    /\ objects'[i].v.last_seen = now

\* a new person is registered for detection k in the step
RegisteredFor(k) ==
    \E n \in Len(objects) + 1 .. Len(objects') :
        objects'[n].v.centroid = last_op'[3][k].center

----------------------------------------------------------------------------
(* The scenario on cam1 *)

\* the tracker k consecutive empty updates of cam1 after the scenario's first two
\* updates: ids 1 and 2 registered at (125, 150) and (325, 250), then id 1 matched
\* to (130, 155) and id 2 missed once
InScenario(k) ==
    /\ empty_run["cam1"] = k
    /\ Len(objects) = 2
    /\ \A i \in 1 .. 2 :
          /\ objects[i].k = i
          /\ objects[i].v.tracking_id = i
          /\ objects[i].v.camera_id = "cam1"
          /\ objects[i].v.is_active <=> ~Departs(objects[i].v.disappeared_frames)
    /\ objects[1].v.centroid = <<130, 155>>
    /\ objects[1].v.bbox = Detection(<<130, 155>>).bbox
    /\ objects[1].v.disappeared_frames = k
    /\ objects[2].v.centroid = <<325, 250>>
    /\ objects[2].v.bbox = Detection(<<325, 250>>).bbox
    /\ objects[2].v.disappeared_frames = Min(k + 1, max_disappeared + 1)

----------------------------------------------------------------------------
(* Properties of the tracker's ids *)

\* C13: within one CentroidTracker every newly registered person gets a
\* tracking_id greater than every id issued before: the ids of the dict are below
\* next_object_id and ascend in the order of registration, no call removes an id
\* or lowers next_object_id, and a person a call registers gets an id that is at
\* least the next_object_id of before, so never the id of a person that departed.
C13_IdsStrictlyIncrease ==
    /\ [](\A i \in 1 .. Len(objects) :
            /\ objects[i].k = objects[i].v.tracking_id
            /\ objects[i].k >= 1
            /\ objects[i].k < next_object_id
            /\ \A j \in 1 .. Len(objects) : i < j => objects[i].k < objects[j].k)
    /\ [][/\ next_object_id' >= next_object_id
          /\ Len(objects') >= Len(objects)
          /\ \A i \in 1 .. Len(objects) : objects'[i].k = objects[i].k
          /\ \A n \in Len(objects) + 1 .. Len(objects') :
                /\ objects'[n].k >= next_object_id
                /\ objects'[n].k < next_object_id'
                /\ \A i \in 1 .. Len(objects) : objects'[n].k > objects[i].k
         ]_vars

C13_Witness ==
    /\ Len(objects) = 2
    /\ ~objects[1].v.is_active
    /\ objects[1].v.disappeared_frames = max_disappeared + 1
    /\ objects[2].v.is_active
    /\ objects[2].v.tracking_id = 2
    /\ objects[2].v.centroid = objects[1].v.centroid
    /\ objects[2].v.camera_id = objects[1].v.camera_id
    /\ objects[2].v.first_seen > objects[1].v.last_seen

----------------------------------------------------------------------------
(* TrackingManager *)

\* the TrackedPerson records of the tracker of position a in the dict trackers
RecordsOf(a) == DictValues(trackers[a].v.objects)

\* C14 (as claimed): tracking_id is unique process-wide: no two TrackedPerson
\* records of the trackers of a TrackingManager, of the same source or of
\* different sources, share a tracking_id
C14_TrackingIdUniqueProcessWide ==
    \A a, b \in 1 .. Len(trackers) :
        \A i \in 1 .. Len(RecordsOf(a)), j \in 1 .. Len(RecordsOf(b)) :
            (a # b \/ i # j) => RecordsOf(a)[i].tracking_id # RecordsOf(b)[j].tracking_id

\* the tracker of the camera, as get_tracker returns it
TrackerOf(trs, camera_id) == DictGet(get_tracker(trs, camera_id), camera_id)

\* every departed person of the dict objs is in the dict after, at its place, still
\* departed and with the same centroid, bbox, disappeared_frames and last_seen
Frozen(objs, after) ==
    \A i \in 1 .. Len(objs) :
        ~objs[i].v.is_active =>
            /\ i <= Len(after)
            /\ after[i].k = objs[i].k
            /\ ~after[i].v.is_active
            /\ after[i].v.centroid = objs[i].v.centroid
            /\ after[i].v.bbox = objs[i].v.bbox
            /\ after[i].v.disappeared_frames = objs[i].v.disappeared_frames
            /\ after[i].v.last_seen = objs[i].v.last_seen

\* every person of the dict after that is not in objs is active and has an id that
\* no person of objs has
NewIdentities(objs, after) ==
    \A j \in 1 .. Len(after) :
        j > Len(objs) =>
            /\ after[j].v.is_active
            /\ after[j].k = after[j].v.tracking_id
            /\ \A i \in 1 .. Len(objs) : after[j].k > objs[i].k

\* C15: departure is irreversible: no call of update, clear_camera or
\* TrackingManager.update makes a departed person active again or changes its
\* centroid, bbox, disappeared_frames or last_seen, in a tracker used alone and in
\* the trackers of a TrackingManager; the persons a call adds are new identities
\* with new tracking ids
C15_DepartedIsFrozen ==
    [][/\ Frozen(objects, objects')
       /\ NewIdentities(objects, objects')
       /\ \A c \in Cameras :
             /\ Frozen(TrackerOf(trackers, c).objects, TrackerOf(trackers, c)'.objects)
             /\ NewIdentities(TrackerOf(trackers, c).objects, TrackerOf(trackers, c)'.objects)
      ]_vars

\* a camera of the manager with a departed person last seen at time 0 and, at the
\* same place, an active person registered at time 1 under a greater id
C15_Witness ==
    \E c \in Cameras :
        \E i, j \in 1 .. Len(TrackerOf(trackers, c).objects) :
            LET p == TrackerOf(trackers, c).objects[i].v
                q == TrackerOf(trackers, c).objects[j].v
            IN  /\ ~p.is_active
                /\ p.disappeared_frames = max_disappeared + 1
                /\ p.last_seen = 0
                /\ q.is_active
                /\ q.centroid = p.centroid
                /\ q.first_seen = 1
                /\ q.tracking_id > p.tracking_id

\* C16 (as claimed): departures are edge-triggered: get_newly_left_persons(camera)
\* reports a person only right after the update call in which it departed, and no
\* more after any later update call on that camera: the persons it reports are
\* among those that departed in the last update call on the camera
C16_NewlyLeftOnlyAfterDeparture ==
    \A c \in Cameras :
        \A n \in 1 .. Len(get_newly_left_persons(trackers, c)) :
            get_newly_left_persons(trackers, c)[n].tracking_id \in just_left[c]

----------------------------------------------------------------------------
(* One call of update against the global greedy assignment *)

RECURSIVE GlobalGreedy(_, _, _, _)
\* the reference: the assignments {<<row, column>>} that are made by repeatedly
\* taking a smallest remaining distance D[row, column] of an unused row and an
\* unused column, if it is within the limit, until no such pair remains; pairs of
\* equal distance are taken in any order
GlobalGreedy(D, rows, cols, limit) ==
    LET eligible == {p \in rows \X cols : D[p[1], p[2]] <= limit * limit}
        smallest == {p \in eligible : \A q \in eligible : D[p[1], p[2]] <= D[q[1], q[2]]}
    IN  IF eligible = {} THEN {{}}
        ELSE UNION {{{p} \cup rest :
                        rest \in GlobalGreedy(D, rows \ {p[1]}, cols \ {p[2]}, limit)} :
                    p \in smallest}

\* the persons of the dict that are active on the camera before the step
ActiveOn(camera_id) == {i \in 1 .. Len(objects) : IsActiveOn(i, camera_id)}

\* the assignment the step makes: the pairs <<person, detection>> matched
Assignment(camera_id) ==
    {p \in ActiveOn(camera_id) \X (1 .. Len(last_op'[3])) : TakesOver(p[1], p[2])}

\* C17 (as claimed): for every set of active persons and every frame that is not
\* empty, the assignment of persons to detections that update makes is one the
\* global greedy assignment makes
C17_AssignmentIsGlobalGreedy ==
    [][\A c \in Cameras : (IsUpdate(c) /\ ActiveOn(c) # {}) =>
        Assignment(c) \in
            GlobalGreedy([i \in ActiveOn(c), k \in 1 .. Len(last_op'[3]) |-> PairDist(i, k)],
                         ActiveOn(c), 1 .. Len(last_op'[3]), max_distance)]_vars

----------------------------------------------------------------------------
(* One call of update and max_distance *)

\* person i is counted a missed frame in the step and keeps its place
Missed(i) ==
    /\ objects'[i].k = objects[i].k
    /\ objects'[i].v.disappeared_frames = objects[i].v.disappeared_frames + 1
    /\ objects'[i].v.centroid = objects[i].v.centroid
    /\ objects'[i].v.bbox = objects[i].v.bbox

\* C18: update never matches a person to a detection farther than max_distance
\* from the person's centroid: an active person of the camera that has every
\* detection of the frame farther than max_distance is counted a missed frame, and
\* a detection farther than max_distance from every active person of the camera
\* is registered as a new person
C18_NeverMatchedBeyondMaxDistance ==
    [][\A c \in Cameras : IsUpdate(c) =>
        /\ \A i \in ActiveOn(c), k \in 1 .. Len(last_op'[3]) :
              TakesOver(i, k) => PairDist(i, k) <= max_distance * max_distance
        /\ \A i \in ActiveOn(c) :
              (\A k \in 1 .. Len(last_op'[3]) : PairDist(i, k) > max_distance * max_distance)
                  => Missed(i)
        /\ \A k \in 1 .. Len(last_op'[3]) :
              (\A i \in ActiveOn(c) : PairDist(i, k) > max_distance * max_distance)
                  => RegisteredFor(k)]_vars

\* after the call: a person that was at (125, 150) is matched to the detection at
\* (155, 190), at distance 50 exactly, and a person that was at (325, 250), out of
\* reach, is counted a missed frame, nobody being registered
C18_Witness ==
    /\ last_op[1] = "update"
    /\ last_op[2] = "cam1"
    /\ last_op[3] = <<Detection(<<155, 190>>)>>
    /\ Len(last_op[4]) = 2
    /\ Len(objects) = 2
    /\ \A i \in 1 .. 2 : last_op[4][i].v.is_active /\ last_op[4][i].v.camera_id = "cam1"
    /\ last_op[4][1].v.centroid = <<125, 150>>
    /\ SqDist(last_op[4][1].v.centroid, last_op[3][1].center) = max_distance * max_distance
    /\ last_op[4][2].v.centroid = <<325, 250>>
    /\ objects[1].v.centroid = <<155, 190>>
    /\ objects[1].v.disappeared_frames = 0
    /\ objects[2].v.centroid = <<325, 250>>
    /\ objects[2].v.disappeared_frames = last_op[4][2].v.disappeared_frames + 1

----------------------------------------------------------------------------
(* CameraStream *)

\* consumer r returns from read() in the step
Returns(r) == rd[r].pc # "idle" /\ rd'[r].pc = "idle"

\* C19: read() returns None only if the acquisition loop has recorded no frame
\* yet (frame_count = 0); when it found the buffer empty, at its first test or in
\* its wait, it returns the last frame the loop recorded - for every interleaving
\* of the consumers' reads with the acquisition loop
C19_ReadNoneOnlyBeforeFirstFrame ==
    [][\A r \in Readers : Returns(r) =>
          /\ rd'[r].ret = 0 => frame_count = 0
          /\ rd'[r].via = "last" => rd'[r].ret = frame_count]_vars

\* a consumer found the buffer empty after frames were acquired and buffered, and
\* returned the last of them; the other consumer had taken a frame from the buffer
C19_Witness ==
    \E r, q \in Readers :
        /\ rd[r].pc = "idle"
        /\ rd[r].via = "last"
        /\ rd[r].ret = frame_count
        /\ frame_count > 1
        /\ frame_queue = <<>>
        /\ rd[q].via = "queue"
        /\ rd[q].ret = frame_count

\* the acquisition loop ends, in the step, an iteration in which it found the
\* buffer full
EndsFullIteration == acq.pc \in {"put", "get_nowait"} /\ acq.oldest # 0 /\ acq'.pc = "loop"

\* C20 (as claimed): drop-oldest overflow: when the acquisition loop acquired a
\* frame and found the buffer full, at the end of that iteration the buffer holds at
\* most buffer_size frames, the frame that was the oldest is gone, and the frame
\* just acquired is the newest of the buffer - whatever the consumers do meanwhile
C20_OverflowKeepsNewest ==
    [][EndsFullIteration =>
          /\ Len(frame_queue') <= buffer_size
          /\ \A n \in 1 .. Len(frame_queue') : frame_queue'[n] # acq.oldest
          /\ frame_queue' # <<>>
          /\ frame_queue'[Len(frame_queue')] = acq.frame]_vars

\* C21: after stop() is called, wherever the acquisition loop is (reading,
\* publishing, buffering or sleeping after a failed read or a closed capture), the
\* loop eventually ends, and from the call on the stream reports is_active() =
\* False and CameraManager.get_frame returns None for it
C21_StopEndsTheLoop ==
    /\ [](stopped => (~is_active /\ get_frame = 0))
    /\ (stopped ~> [](acq.pc = "done" /\ ~is_active /\ get_frame = 0))

\* stop() found the loop asleep, gave up the join after its timeout and returned,
\* and the loop has ended since
C21_Witness ==
    /\ stopper.pc = "done"
    /\ stopper.at = "sleep"
    /\ stopper.join = "timeout"
    /\ acq.pc = "done"
    /\ last_frame # 0

----------------------------------------------------------------------------
(* TrackingManager.update seen from its caller *)

\* the step is a call of TrackingManager.update for the camera
IsManagerUpdate(camera_id) ==
    /\ last_op'[1] = "TrackingManager.update"
    /\ last_op'[2] = camera_id

\* C22: through TrackingManager.update, a person that has an employee_id keeps it
\* and identify_face is not called for it; identify_face is called only for
\* persons that are active and have no employee_id
C22_ResolvedIdentityIsKept ==
    [][\A c \in Cameras : IsManagerUpdate(c) =>
          /\ \A i \in 1 .. Len(TrackerOf(trackers, c).objects) :
                TrackerOf(trackers, c).objects[i].v.employee_id # "None" =>
                    /\ TrackerOf(trackers, c)'.objects[i].v.employee_id
                           = TrackerOf(trackers, c).objects[i].v.employee_id
                    /\ TrackerOf(trackers, c).objects[i].k \notin last_op'[3]
          /\ \A k \in last_op'[3] :
                /\ DictGet(TrackerOf(trackers, c)'.objects, k).is_active
                /\ DictHas(TrackerOf(trackers, c).objects, k) =>
                       DictGet(TrackerOf(trackers, c).objects, k).employee_id = "None"
      ]_vars

\* after a call: person 1, identified in an earlier call, was not asked about and
\* keeps its employee; person 2 was asked about and is identified as another one
C22_Witness ==
    /\ last_op[1] = "TrackingManager.update"
    /\ last_op[3] = {2}
    /\ Len(last_op[4]) = 2
    /\ last_op[4][1].v.is_active
    /\ last_op[4][1].v.employee_id = "EMP001"
    /\ last_op[4][2].v.employee_id = "EMP002"
    /\ last_op[4] = TrackerOf(trackers, last_op[2]).objects

\* C23 (as claimed): the dict TrackingManager.update returns holds only the
\* persons of the camera that are active: a person that departed is in the result
\* of no later call
C23_UpdateReturnsActiveOnly ==
    last_op[1] = "TrackingManager.update" =>
        \A n \in 1 .. Len(last_op[4]) : last_op[4][n].v.is_active

\* C24 (as claimed): TrackingManager.get_active_persons() without a camera
\* returns as many entries as there are active persons over all the trackers, the
\* total_active of get_statistics
C24_AggregateCountsEveryActive ==
    Len(AllActivePersons(trackers, <<>>)) = total_active(trackers)

----------------------------------------------------------------------------
(* Properties of the system's start and stop *)

\* the loops of process_cameras that are running
RunningPipelines == {p \in Pipelines : pipeline[p].pc \notin {"unborn", "done"}}

\* the loops that are inside tracking_manager.update for the camera
InUpdate == {p \in Pipelines : pipeline[p].pc = "update"}

\* C25: whatever start_system and stop_system requests arrive and however they
\* interleave, at most one loop of process_cameras is running, and so at most one
\* thread is inside an update of the camera's tracker
C25_OnePipelineLoopAtATime ==
    /\ Cardinality(RunningPipelines) <= 1
    /\ Cardinality(InUpdate) <= 1

----------------------------------------------------------------------------
(* Properties of the pipeline pass *)

\* the step was the pass of the camera
IsPass(camera_id) == last_op[1] = "pass" /\ last_op[2] = camera_id

\* the pending set holds the alert of the person that left on the camera
HasAlertOf(camera_id, k) ==
    /\ DictHas(pending_alerts, k)
    /\ alerts[DictGet(pending_alerts, k)].tracking_id = k
    /\ alerts[DictGet(pending_alerts, k)].left_at
          = DictGet(TrackerOf(trackers, camera_id).objects, k).last_seen
    /\ alerts[DictGet(pending_alerts, k)].alert_time
          = DictGet(TrackerOf(trackers, camera_id).objects, k).last_seen + timeout_minutes

\* C26: when a pass that completes without an exception makes a person of a
\* camera depart, the pending set holds at the end of the pass an alert under the
\* person's tracking_id whose left_at is the person's last_seen and whose fire
\* time is last_seen + timeout
C26_DepartureCreatesItsAlert ==
    \A camera_id \in Cameras :
        (IsPass(camera_id) /\ last_op[3] = "completed") =>
            \A k \in just_left[camera_id] : HasAlertOf(camera_id, k)

\* C27: a pass in which a Database call raises still creates the pending alert of
\* every person that left in it
C27_FailedPassCreatesItsAlert ==
    \A camera_id \in Cameras :
        (IsPass(camera_id) /\ last_op[3] # "completed") =>
            \A k \in just_left[camera_id] : DictHas(pending_alerts, k)

----------------------------------------------------------------------------
(* Properties of the scheduler's lock *)

\* thread e is in _trigger_alert: at the persistence call or in the callbacks
InTriggerAlert(e) ==
    \/ ev[e].pc = "trigger" /\ ev[e].j <= Len(ev[e].alerts_to_trigger)
    \/ ev[e].pc \in {"callbacks", "acquire"}

\* C28: the evaluator does not hold the scheduler's lock while it is at the
\* persistence call or in a callback of a trigger, so that a callback that calls
\* back into the scheduler never waits for a lock its own thread holds
C28_LockNotHeldAcrossTrigger ==
    \A e \in Evaluators :
        /\ InTriggerAlert(e) => lock # e
        /\ ~(ev[e].pc = "acquire" /\ lock = e)

----------------------------------------------------------------------------
(* Properties of the shutdown *)

\* stop_system has returned and no start_system came after it
StoppedForGood == req["h1"] = "stopped"

LoopsEnded ==
    /\ \A p \in Pipelines : pipeline[p].pc \in {"unborn", "done"}
    /\ \A m \in Monitors : monitor[m].pc \in {"unborn", "done"}

\* C29: when stop_system has returned and no start_system follows, eventually the
\* loop of process_cameras has ended, the loop of the alert monitor has ended and
\* the acquisition loop of the registered camera is stopped
C29_StopEndsEveryLoop ==
    <>[]StoppedForGood => <>[](LoopsEnded /\ stopped /\ acq.pc = "done")

----------------------------------------------------------------------------
(* Properties of a tracker shared by several cameras *)

\* the persons of the other cameras are in the dict as they were in the dict
\* before
OthersUntouched(before, camera_id) ==
    \A i \in 1 .. Len(before) :
        before[i].v.camera_id # camera_id =>
            /\ i <= Len(objects)
            /\ objects[i] = before[i]

\* C30: clear_camera(c) on a tracker that holds persons of several cameras makes
\* every person of camera c inactive and leaves every person of the other cameras
\* as it was, active if it was active; update(detections, c) changes no person
\* of another camera
C30_OtherCamerasUntouched ==
    /\ last_op[1] = "clear_camera" =>
          /\ Len(objects) = Len(last_op[4])
          /\ \A i \in 1 .. Len(objects) :
                objects[i].v.camera_id = last_op[2] => ~objects[i].v.is_active
          /\ OthersUntouched(last_op[4], last_op[2])
    /\ last_op[1] = "update" => OthersUntouched(last_op[4], last_op[2])

C30_Witness ==
    /\ last_op[1] = "clear_camera"
    /\ \E i \in 1 .. Len(objects) : \E k \in 1 .. Len(objects) :
          /\ objects[i].v.camera_id = last_op[2]
          /\ last_op[4][i].v.is_active
          /\ ~objects[i].v.is_active
          /\ objects[k].v.camera_id # last_op[2]
          /\ objects[k].v.is_active

----------------------------------------------------------------------------
(* Properties of the states of a tracker *)

\* C31: in every state of a tracker, whatever update, register and clear_camera
\* calls were made, a person is inactive if and only if its disappeared_frames
\* exceeds max_disappeared, and an active person has between 0 and
\* max_disappeared missed frames
C31_InactiveIffMissedTooLong ==
    \A i \in 1 .. Len(objects) :
        /\ ~objects[i].v.is_active <=> objects[i].v.disappeared_frames > max_disappeared
        /\ objects[i].v.is_active =>
              /\ objects[i].v.disappeared_frames >= 0
              /\ objects[i].v.disappeared_frames <= max_disappeared

----------------------------------------------------------------------------
(* Properties of the running evaluator *)

\* the alert object o is a value of the pending dict
InPending(o) == o \in Range(DictValues(pending_alerts))

\* C32: while the evaluator runs, an alert whose fire time has been reached is
\* eventually marked triggered unless it leaves the pending dict, whatever
\* persistence and callback failures the cycles meet
C32_DueAlertEventuallyTriggered ==
    \A o \in Slots :
        (InPending(o) /\ now >= alerts[o].alert_time)
            ~> (~InPending(o) \/ alerts[o].triggered)

\* two pending alerts are triggered although a persistence call of their cycles
\* failed and a callback that raises was invoked
C32_Witness ==
    \E o \in Slots : \E p \in Slots :
        /\ o # p
        /\ InPending(o) /\ alerts[o].triggered
        /\ InPending(p) /\ alerts[p].triggered
        /\ Len(absence_alerts) < create_alert_calls[1] + create_alert_calls[2]
        /\ \E n \in 1 .. Len(alert_callbacks) : alert_callbacks[n] = "raises"
        /\ cb_calls[alerts[o].tracking_id] # <<>>

----------------------------------------------------------------------------
(* Properties of the loop over the cameras *)

\* C33: with any number of active cameras that always have a frame, every one of
\* them gets detection and its tracker update again and again while the loop
\* runs
C33_EveryCameraServedForEver ==
    \A c \in {"cam1", "cam2", "cam3"} :
        []<>(c \in Range(pipeline[1].active_cameras) => last_op = <<"served", c>>)

----------------------------------------------------------------------------
(* Properties of get_tracker under two threads *)

\* C34: for every camera, all the calls of get_tracker return the same instance,
\* and no instance that has registered persons is taken out of the dict
C34_OneTrackerPerCamera ==
    last_op[1] = "get_tracker" =>
        /\ \A c \in Cameras : Cardinality({i \in last_op[2] : i[2] = c}) <= 1
        /\ last_op[3] = {}

----------------------------------------------------------------------------
(* Properties of the stream whose source fails *)

\* C35: once the source of a started stream has failed for good, is_active()
\* eventually returns False (and get_active_cameras() leaves the camera out)
C35_FailureSurfaces == (capture = "closed") ~> ~is_active

----------------------------------------------------------------------------
(* Properties of the alert monitor's start and stop *)

\* the loops of _monitor_loop that are running: the threads inside the body of
\* `while self.running`, in _check_alerts or in the sleep after it
RunningMonitors == {m \in Monitors : monitor[m].pc \in {"check", "sleep"}}

\* C36: whatever the sequence of AlertManager.start() and stop() calls, a stop()
\* that returns at its join timeout included, at most one loop of _monitor_loop
\* is running
C36_OneMonitorLoopAtATime == Cardinality(RunningMonitors) <= 1

----------------------------------------------------------------------------
(* Properties of the alert statistics *)

\* C37: whenever get_statistics and get_triggered_alerts can take the lock, the
\* count 'unacknowledged' is not negative and is the number of alerts that
\* get_triggered_alerts returns
C37_UnacknowledgedCountsTriggered ==
    lock = "free" =>
        /\ get_statistics.unacknowledged >= 0
        /\ get_statistics.unacknowledged = Len(get_triggered_alerts)

----------------------------------------------------------------------------
(* Properties of the stream with one consumer *)

\* C38: with one consumer and one acquisition loop, a read() never returns a
\* frame acquired before the frame that the read() before it returned
C38_ReadsNeverGoBack ==
    [][(rd["r1"].pc # "idle" /\ rd'["r1"].pc = "idle") => rd'["r1"].ret >= rd["r1"].ret]_vars

----------------------------------------------------------------------------
(* Properties of the removal of a camera *)

\* C39: once remove_camera has removed the camera while the pipeline runs, the
\* persons that were active on it eventually are inactive: get_active_persons of
\* the camera gets empty and total_active gets to 0
C39_RemovedCameraGetsEmpty ==
    (stopper.pc = "done")
        ~> (/\ TrackingManager_get_active_persons(trackers, "cam1") = <<>>
            /\ total_active(trackers) = 0)

----------------------------------------------------------------------------
(* Properties of the account of the detections *)

\* the persons of the dict that are active on the camera and were seen in the
\* frame of the call
SeenNow(camera_id) ==
    {i \in 1 .. Len(objects) :
        IsActiveOn(i, camera_id) /\ objects[i].v.disappeared_frames = 0}

\* the persons of SeenNow that carry detection det
Carriers(camera_id, det) ==
    {i \in SeenNow(camera_id) :
        /\ objects[i].v.centroid = det.center
        /\ objects[i].v.bbox = det.bbox
        /\ objects[i].v.confidence = det.confidence}

\* C40: after update(D, c) with D not empty, the active persons of c with
\* disappeared_frames = 0 are as many as the detections, every detection is
\* carried by exactly one of them, an older person or a new one, and none of them
\* carries two detections
C40_EveryDetectionAccountedOnce ==
    (last_op[1] = "update" /\ Len(last_op[3]) > 0) =>
        /\ Cardinality(SeenNow(last_op[2])) = Len(last_op[3])
        /\ \A n \in 1 .. Len(last_op[3]) :
              Cardinality(Carriers(last_op[2], last_op[3][n])) = 1
        /\ \A i \in SeenNow(last_op[2]) :
              Cardinality({n \in 1 .. Len(last_op[3]) :
                              i \in Carriers(last_op[2], last_op[3][n])}) = 1

\* an update of two detections: one taken over by a person of the dict, one
\* registered, while another person of the camera was missed
C40_Witness ==
    /\ last_op[1] = "update"
    /\ Len(last_op[3]) = 2
    /\ Len(last_op[4]) = 2
    /\ Len(objects) = 3
    /\ \E i, j \in 1 .. 2 :
          /\ i # j
          /\ i \in SeenNow(last_op[2])
          /\ last_op[4][j].v.is_active
          /\ last_op[4][j].v.camera_id = last_op[2]
          /\ objects[j].v.disappeared_frames = last_op[4][j].v.disappeared_frames + 1
    /\ 3 \in SeenNow(last_op[2])

====
